---- MODULE Spec2Model ----
(***************************************************************************)
(* A model of primer_ops: the markdown-to-docx renderer (render_docx.py)   *)
(* and the client-repo layout helpers (client_repo.py).                    *)
(*                                                                         *)
(* Text is modelled as a sequence of one-character strings, a path as a    *)
(* sequence of components (each a text).  Every component of the program   *)
(* has its own variables and its own specification; a specification leaves *)
(* the variables of the other components at their idle values.             *)
(***************************************************************************)
EXTENDS Integers, Sequences, FiniteSets, TLC

VARIABLES
    \* client_repo.sanitize_folder_name
    name,           \* the argument (a text, or None)
    cleaned,        \* the returned text, Unset before the call
    \* client_repo.ensure_client_repo
    dirs,           \* the directories of the file system (paths)
    files,          \* the regular files of the file system (paths)
    repo_args,      \* the arguments of the last call, or NotCalled
    repo,           \* what the last call returned, RepoRaised, or NotCalled
    repo_prev,      \* what the call before it returned when it had the same
                    \* arguments, else NotCalled
    repo_calls,     \* the number of calls made
    \* render_docx._resolve_company_name and the replacements built from it
    md_file,        \* the path of the markdown file
    lead_files,     \* what each lead_input.json candidate path holds
    resolved_name,  \* what _resolve_company_name returned, Unset before
    strict_exists,  \* the Python of the build: whether Path.exists raises the
                    \* PermissionError of a directory it may not search (up
                    \* to 3.13) or answers False (from 3.14 on)
    replacements,   \* the replacements of _apply_placeholder_replacements
    \* render_docx._save_docx_atomic
    disk,           \* what each path of the output directory holds
    save_path,      \* the destination path
    save_pc,        \* where the call stands
    prior,          \* what the destination held when the call began
    \* render_docx._inline_runs
    inline_token,   \* the argument: an inline token with children, or none
    runs,           \* the returned runs
    inline_pc,      \* "start" before the call, "done" after
    \* the Document and its _DocWriter
    document,       \* body: the blocks of the document body in order;
                    \* orphans: the blocks removed from it; styles: the names
                    \* of the styles it defines; next_id: the next block identity
    writer,         \* insert_after and reuse_first (block identities, 0: None)
    emitted,        \* the identities of the blocks the writer returned or
                    \* created, in call order
    template0,      \* the identities of the blocks of the body when the
                    \* writer was created, in order
    anchor0,        \* insert_after when the writer was created
    reuse0,         \* reuse_first when the writer was created
    doc_pc,         \* which operation on the document is under way
    \* render_primer_docx and _render_tokens
    template,       \* what the template argument is, and what is at its path
    tokens,         \* the tokens of the markdown text
    token_i,        \* the index i of _render_tokens, counted from 1
    list_stack,     \* list_stack of _render_tokens
    in_list_item,   \* in_list_item of _render_tokens
    table_rows,     \* the rows argument of _render_table
    md_readable,    \* whether the markdown file can be read
    error,          \* the error render_primer_docx raised, NoError if none
    \* render_docx._apply_style_profile
    style_attrs,    \* the attributes of each style the document defines
    profile_calls,  \* how often _apply_style_profile was called
    renders         \* which call of render_primer_docx is running

\* A text is a sequence of one-character strings, so these are no texts.
None == <<"None">>
Unset == <<"Unset">>

sanVars == <<name, cleaned>>
repoVars == <<dirs, files, repo_args, repo, repo_prev, repo_calls>>
companyVars ==
    <<md_file, lead_files, resolved_name, strict_exists, replacements>>
saveVars == <<disk, save_path, save_pc, prior>>
inlineVars == <<inline_token, runs, inline_pc>>
renderVars ==
    <<template, tokens, token_i, list_stack, in_list_item, table_rows>>
runVars == <<md_readable, error>>
docVars ==
    <<document, writer, emitted, template0, anchor0, reuse0, doc_pc, renderVars,
      runVars>>
profileVars == <<style_attrs, profile_calls>>
vars ==
    <<sanVars, repoVars, companyVars, saveVars, inlineVars, docVars,
      profileVars, renders>>

-----------------------------------------------------------------------------
(* Generic helpers on sequences.                                           *)

Min(a, b) == IF a < b THEN a ELSE b
Max(a, b) == IF a > b THEN a ELSE b

Last(s) == s[Len(s)]
Front(s) == SubSeq(s, 1, Len(s) - 1)

\* s[:n] of Python
Take(s, n) == SubSeq(s, 1, Min(n, Len(s)))

IsPrefix(p, s) == Len(p) <= Len(s) /\ SubSeq(s, 1, Len(p)) = p

\* the indices 1..n as a sequence
Indices(n) == [i \in 1..n |-> i]

\* a text of n letters
Pad(n) == [i \in 1..n |-> "a"]

-----------------------------------------------------------------------------
(* client_repo.py: sanitize_folder_name                                    *)

\* the character class of _INVALID_FOLDER_CHARS_RE
_INVALID_FOLDER_CHARS == {"<", ">", ":", "\"", "/", "\\", "|", "?", "*"}

_MAX_FOLDER_NAME_LEN == 80

\* what str.split() splits on
Whitespace == {" ", "\t", "\n"}

\* _INVALID_FOLDER_CHARS_RE.sub("", s)
RemoveInvalid(s) == SelectSeq(s, LAMBDA c : c \notin _INVALID_FOLDER_CHARS)

\* " ".join(s.split()): every character that is not whitespace is kept; of a
\* run of whitespace the first character is kept, as one space, when a word
\* precedes the run and a word follows it
SplitJoin(s) ==
    LET n == Len(s)
        Keep(i) ==
            \/ s[i] \notin Whitespace
            \/ /\ i > 1
               /\ s[i - 1] \notin Whitespace
               /\ \E j \in (i + 1)..n : s[j] \notin Whitespace
        kept == SelectSeq(Indices(n), Keep)
    IN  [k \in 1..Len(kept) |->
            IF s[kept[k]] \in Whitespace THEN " " ELSE s[kept[k]]]

\* s.rstrip(chars): s up to its last character that is not in chars
RStrip(s, chars) ==
    LET stay == {i \in 1..Len(s) : s[i] \notin chars}
    IN  IF stay = {} THEN <<>>
        ELSE SubSeq(s, 1, CHOOSE i \in stay : \A j \in stay : j <= i)

\* the mutant of sanitize_folder_name: the truncated text is not trimmed again
sanitize_folder_name_NoRetrim(n) ==
    IF n = None THEN <<>>
    ELSE LET c == RStrip(SplitJoin(RemoveInvalid(n)), {" ", "."})
         IN  IF Len(c) > _MAX_FOLDER_NAME_LEN
             THEN Take(c, _MAX_FOLDER_NAME_LEN)
             ELSE c

sanitize_folder_name(n) ==
    IF n = None THEN <<>>
    ELSE LET c == RStrip(SplitJoin(RemoveInvalid(n)), {" ", "."})
         IN  IF _MAX_FOLDER_NAME_LEN # 0 /\ Len(c) > _MAX_FOLDER_NAME_LEN
             THEN RStrip(Take(c, _MAX_FOLDER_NAME_LEN), {" ", "."})
             ELSE c

\* The inputs: a run of letters (none, or one that ends just below the
\* length limit) followed by every text of at most MaxTail characters.
MaxTail == 4
SanAlphabet == {"a", " ", "\t", ".", "<", "/"}
SanTails == UNION {[1..n -> SanAlphabet] : n \in 0..MaxTail}
SanPads == {0, _MAX_FOLDER_NAME_LEN - 3, _MAX_FOLDER_NAME_LEN - 2}
SanNames == {Pad(p) \o t : p \in SanPads, t \in SanTails} \cup {None}

SanInit == name \in SanNames /\ cleaned = Unset
SanIdle == name = None /\ cleaned = Unset

SanitizeFolderName ==
    /\ cleaned = Unset
    /\ cleaned' = sanitize_folder_name(name)
    /\ UNCHANGED <<name, repoVars, companyVars, saveVars, inlineVars, docVars,
                   profileVars, renders>>

-----------------------------------------------------------------------------
(* client_repo.py: ensure_client_repo, over a file system of directories   *)
(* and regular files.                                                      *)

unknown_company ==
    <<"u", "n", "k", "n", "o", "w", "n", "_", "c", "o", "m", "p", "a", "n", "y">>
Dossier == <<"_", "d", "o", "s", "s", "i", "e", "r">>
Latest == <<"l", "a", "t", "e", "s", "t">>
Runs == <<"r", "u", "n", "s">>
LeadInputJson == <<"l", "e", "a", "d", "_", "i", "n", "p", "u", "t", ".", "j", "s", "o", "n">>

Prefixes(p) == {SubSeq(p, 1, k) : k \in 0..Len(p)}

\* Path.mkdir(parents=True, exist_ok=True): the directories after the call;
\* it raises when a component of the path is a regular file
MkdirP(ds, fl, p) ==
    IF Prefixes(p) \cap fl # {} THEN [ok |-> FALSE, dirs |-> ds]
    ELSE [ok |-> TRUE, dirs |-> ds \cup Prefixes(p)]

\* the four mkdir calls in order; the first that raises ends the function,
\* the directories made before it stay
RECURSIVE MkdirAll(_, _, _)
MkdirAll(ds, fl, paths) ==
    IF paths = <<>> THEN [ok |-> TRUE, dirs |-> ds]
    ELSE LET r == MkdirP(ds, fl, Head(paths))
         IN  IF ~r.ok THEN r ELSE MkdirAll(r.dirs, fl, Tail(paths))

folder_name_of(company_name) ==
    LET s == sanitize_folder_name(company_name)
    IN  IF s = <<>> THEN unknown_company ELSE s

\* the mutant of repo_paths: the raw company name is the folder name
repo_paths_Unsanitized(base_dir, company_name) ==
    LET repo_root == base_dir \o <<IF company_name = None THEN unknown_company
                                   ELSE company_name>>
    IN  [repo_root |-> repo_root,
         dossier_dir |-> repo_root \o <<Dossier>>,
         lead_input_path |-> repo_root \o <<Dossier, LeadInputJson>>,
         latest_dir |-> repo_root \o <<Latest>>,
         runs_dir |-> repo_root \o <<Runs>>]

repo_paths(base_dir, company_name) ==
    LET repo_root == base_dir \o <<folder_name_of(company_name)>>
    IN  [repo_root |-> repo_root,
         dossier_dir |-> repo_root \o <<Dossier>>,
         lead_input_path |-> repo_root \o <<Dossier, LeadInputJson>>,
         latest_dir |-> repo_root \o <<Latest>>,
         runs_dir |-> repo_root \o <<Runs>>]

MaxCalls == 2
CompanyNames ==
    {None, <<>>, <<"A">>, <<" ", "A", " ">>, <<"A", ".">>, <<"A", "/", "B">>,
     <<".", ".">>, <<"<", " ", ".">>}
BaseDirs == {<<<<"b">>>>, <<<<"b">>, <<"c">>>>}

\* regular files that may be in the way of the layout
RepoObstacles ==
    {<<<<"b">>, <<"A">>>>, <<<<"b">>, <<"A">>, Latest>>, <<<<"b">>, <<"c">>>>}

NotCalled == [called |-> FALSE]
RepoRaised == [raised |-> TRUE]

RepoInit ==
    /\ dirs \in {{<<>>}, {<<>>, <<<<"b">>>>}}
    /\ files \in {{}} \cup {{f} : f \in RepoObstacles}
    /\ repo_args = NotCalled
    /\ repo = NotCalled
    /\ repo_prev = NotCalled
    /\ repo_calls = 0

RepoIdle ==
    /\ dirs = {<<>>}
    /\ files = {}
    /\ repo_args = NotCalled
    /\ repo = NotCalled
    /\ repo_prev = NotCalled
    /\ repo_calls = 0

EnsureClientRepo(base_dir, company_name) ==
    LET paths == repo_paths(base_dir, company_name)
        made == MkdirAll(dirs, files,
                         <<paths.repo_root, paths.dossier_dir,
                           paths.latest_dir, paths.runs_dir>>)
    IN  /\ repo_calls < MaxCalls
        /\ repo_calls' = repo_calls + 1
        /\ dirs' = made.dirs
        /\ repo' = IF made.ok THEN paths ELSE RepoRaised
        /\ repo_args' = [base_dir |-> base_dir, company_name |-> company_name]
        /\ repo_prev' =
               IF repo_args = [base_dir |-> base_dir, company_name |-> company_name]
               THEN repo ELSE NotCalled
        /\ UNCHANGED <<files, sanVars, companyVars, saveVars, inlineVars, docVars,
                   profileVars, renders>>

EnsureClientRepoCall ==
    \E b \in BaseDirs, n \in CompanyNames : EnsureClientRepo(b, n)

-----------------------------------------------------------------------------
(* render_docx.py: _resolve_company_name, and the replacements that        *)
(* _apply_placeholder_replacements builds from it.                         *)

\* s.strip(): s from its first to its last character that is not whitespace
Strip(s) ==
    LET stay == {i \in 1..Len(s) : s[i] \notin Whitespace}
    IN  IF stay = {} THEN <<>>
        ELSE SubSeq(s, CHOOSE i \in stay : \A j \in stay : i <= j,
                       CHOOSE i \in stay : \A j \in stay : j <= i)

\* A value of a JSON object: a text, a value that is no string, or no value.
Absent == <<"Absent">>
NonString == <<"NonString">>
IsStr(v) == v # Absent /\ v # NonString

\* What a candidate path holds: nothing, a file that cannot be read or parsed
\* (read_text or json.loads raises), JSON that is no object, or an object; or
\* the path lies in a directory the process may not search.
Payload(kind, n, c, y) ==
    [kind |-> kind, company_name |-> n, client |-> c, company |-> y]
Missing == Payload("missing", Absent, Absent, Absent)
Malformed == Payload("malformed", Absent, Absent, Absent)
NonObject == Payload("nonobject", Absent, Absent, Absent)
Unsearchable == Payload("unsearchable", Absent, Absent, Absent)

\* the call raised instead of returning
Raised == <<"Raised">>

\* for key in ("company_name", "client", "company")
LeadKeys == <<"company_name", "client", "company">>

\* the mutant of LeadKeysOrder: client is looked up before company_name
LeadKeysOrder_ClientFirst == <<"client", "company_name", "company">>

LeadKeysOrder == LeadKeys

\* lines 404-409: the first key with a string that is not blank, stripped
RECURSIVE NameFromKeys(_, _)
NameFromKeys(payload, keys) ==
    IF keys = <<>> THEN None
    ELSE LET value == payload[Head(keys)]
         IN  IF IsStr(value) /\ Strip(value) # <<>> THEN Strip(value)
             ELSE NameFromKeys(payload, Tail(keys))

\* lines 398-409 for one candidate path
NameIn(payload) ==
    IF payload.kind # "object" THEN None
    ELSE NameFromKeys(payload, LeadKeysOrder)

\* [md_file.parent, *md_file.parents]: the parent comes twice
RECURSIVE Parents(_)
Parents(path) ==
    IF path = <<>> THEN <<>> ELSE <<Front(path)>> \o Parents(Front(path))

ParentList(md) == <<Front(md)>> \o Parents(md)

\* lines 388-391
RECURSIVE CandidatePaths(_)
CandidatePaths(parents) ==
    IF parents = <<>> THEN <<>>
    ELSE <<Head(parents) \o <<LeadInputJson>>,
           Head(parents) \o <<Dossier, LeadInputJson>>>>
         \o CandidatePaths(Tail(parents))

PayloadAt(lf, path) == IF path \in DOMAIN lf THEN lf[path] ELSE Missing

\* line 398: path.exists() stands outside the try of lines 400-403; what it
\* does not answer it raises
ExistsRaises(payload) == payload.kind = "unsearchable" /\ strict_exists

\* lines 393-410
RECURSIVE ResolveFrom(_, _, _)
ResolveFrom(cands, seen, lf) ==
    IF cands = <<>> THEN None
    ELSE LET path == Head(cands)
         IN  IF path \in seen THEN ResolveFrom(Tail(cands), seen, lf)
             ELSE IF ExistsRaises(PayloadAt(lf, path)) THEN Raised
             ELSE LET found == NameIn(PayloadAt(lf, path))
                  IN  IF found # None THEN found
                      ELSE ResolveFrom(Tail(cands), seen \cup {path}, lf)

_resolve_company_name(md, lf) ==
    ResolveFrom(CandidatePaths(ParentList(md)), {}, lf)

UnknownCompany ==
    <<"U", "n", "k", "n", "o", "w", "n", " ", "C", "o", "m", "p", "a", "n", "y">>

\* date.today().isoformat()
Today == <<"2", "0", "2", "6", "-", "1", "1", "-", "0", "4">>

COMPANY == "{{COMPANY}}"
DATE == "{{DATE}}"
CONTACT == "{{CONTACT}}"
PLACEHOLDER == "{{CONTENT}}"

\* lines 346-350
Replacements(md, lf) ==
    LET found == _resolve_company_name(md, lf)
    IN  [company |-> IF found = None THEN UnknownCompany ELSE found,
         date |-> Today]

\* The markdown file lies in d, in d/_dossier or in the top directory.
MdFiles ==
    {<<<<"d">>, <<"p">>>>, <<<<"d">>, Dossier, <<"p">>>>, <<<<"p">>>>}

LeadPaths ==
    <<<<<<"d">>, LeadInputJson>>, <<<<"d">>, Dossier, LeadInputJson>>,
      <<LeadInputJson>>, <<Dossier, LeadInputJson>>>>

\* the name under key k of the file at LeadPaths[i], with blanks around it
LeadName(i, k) == <<" ", <<"1", "2", "3", "4">>[i], k, "\t">>

\* what the file at LeadPaths[i] may hold
LeadPayloads(i) ==
    {Missing, Malformed, NonObject, Unsearchable,
     Payload("object", Absent, Absent, Absent),
     Payload("object", LeadName(i, "n"), LeadName(i, "c"), LeadName(i, "y")),
     Payload("object", <<" ">>, LeadName(i, "c"), LeadName(i, "y")),
     Payload("object", NonString, <<>>, LeadName(i, "y")),
     Payload("object", <<"\t", " ">>, NonString, Absent)}

LeadFileSystems ==
    {[path \in {LeadPaths[i] : i \in 1..4} |->
         LET i == CHOOSE j \in 1..4 : LeadPaths[j] = path IN f[i]] :
     f \in {<<p1, p2, p3, p4>> : p1 \in LeadPayloads(1), p2 \in LeadPayloads(2),
                                p3 \in LeadPayloads(3), p4 \in LeadPayloads(4)}}

NoReplacements == [company |-> Unset, date |-> Unset]

CompanyInit ==
    /\ md_file \in MdFiles
    /\ lead_files \in LeadFileSystems
    /\ strict_exists \in BOOLEAN
    /\ resolved_name = Unset
    /\ replacements = NoReplacements

CompanyIdle ==
    /\ md_file = <<<<"p">>>>
    /\ lead_files = [path \in {} |-> Missing]
    /\ strict_exists = FALSE
    /\ resolved_name = Unset
    /\ replacements = NoReplacements

ResolveCompanyName ==
    /\ resolved_name = Unset
    /\ resolved_name' = _resolve_company_name(md_file, lead_files)
    /\ replacements' = IF resolved_name' = Raised THEN NoReplacements
                       ELSE Replacements(md_file, lead_files)
    /\ UNCHANGED <<md_file, lead_files, strict_exists, sanVars, repoVars, saveVars, inlineVars,
                   docVars,
                   profileVars, renders>>

-----------------------------------------------------------------------------
(* render_docx.py: _save_docx_atomic.  doc.save writes the package part by *)
(* part; the process may be interrupted between any two file operations.   *)

\* the number of writes doc.save needs for a document
MaxParts == 3

\* What a path holds: nothing, or the first `written` parts of a document.
NoFile == [doc |-> "none", written |-> 0]
FileOf(doc, written) == [doc |-> doc, written |-> written]
Complete(content) == content # NoFile /\ content.written = MaxParts

\* the mutant of TmpPath: the document is saved to the destination itself
TmpPath_Destination(path) == path

\* line 133: path.with_suffix(path.suffix + ".tmp")
TmpPath(path) == path \o ".tmp"

SavePaths == {"out.docx", "out", "primer.docx"}
DiskPaths == SavePaths \cup {p \o ".tmp" : p \in SavePaths}

\* line 134, doc.save(str(tmp_path)): open for writing truncates the file
SaveOpen ==
    /\ save_pc = "start"
    /\ disk' = [disk EXCEPT ![TmpPath(save_path)] = FileOf("new", 0)]
    /\ save_pc' = "writing"
    /\ UNCHANGED <<save_path, prior, sanVars, repoVars, companyVars,
                   inlineVars, docVars,
                   profileVars, renders>>

\* line 134: one more part is written
SaveWrite ==
    /\ save_pc = "writing"
    /\ disk[TmpPath(save_path)].written < MaxParts
    /\ disk' = [disk EXCEPT ![TmpPath(save_path)].written = @ + 1]
    /\ UNCHANGED <<save_path, save_pc, prior, sanVars, repoVars, companyVars,
                   inlineVars, docVars,
                   profileVars, renders>>

\* line 134: the file is closed
SaveClose ==
    /\ save_pc = "writing"
    /\ disk[TmpPath(save_path)].written = MaxParts
    /\ save_pc' = "saved"
    /\ UNCHANGED <<disk, save_path, prior, sanVars, repoVars, companyVars,
                   inlineVars, docVars,
                   profileVars, renders>>

\* line 135, tmp_path.replace(path): one atomic rename
SaveReplace ==
    /\ save_pc = "saved"
    /\ disk' = IF TmpPath(save_path) = save_path THEN disk
               ELSE [disk EXCEPT ![save_path] = disk[TmpPath(save_path)],
                                 ![TmpPath(save_path)] = NoFile]
    /\ save_pc' = "done"
    /\ UNCHANGED <<save_path, prior, sanVars, repoVars, companyVars,
                   inlineVars, docVars,
                   profileVars, renders>>

\* the process is stopped before the rename
SaveInterrupt ==
    /\ save_pc \in {"start", "writing", "saved"}
    /\ save_pc' = "interrupted"
    /\ UNCHANGED <<disk, save_path, prior, sanVars, repoVars, companyVars,
                   inlineVars, docVars,
                   profileVars, renders>>

\* The destination is absent or a complete older document; the temporary
\* path is absent or holds what an earlier, interrupted save left.
SaveInit ==
    /\ save_path \in SavePaths
    /\ prior \in {NoFile, FileOf("old", MaxParts)}
    /\ disk \in {[p \in DiskPaths |->
                     IF p = save_path THEN prior
                     ELSE IF p = save_path \o ".tmp" THEN stale
                     ELSE NoFile] :
                 stale \in {NoFile} \cup {FileOf("old", k) : k \in 0..MaxParts}}
    /\ save_pc = "start"

SaveIdle ==
    /\ save_path = "out.docx"
    /\ prior = NoFile
    /\ disk = [p \in DiskPaths |-> NoFile]
    /\ save_pc = "idle"

-----------------------------------------------------------------------------
(* render_docx.py: _inline_runs and _append_run.                           *)

\* a child of an inline token
Child(type, content) == [type |-> type, content |-> content]

\* a text run, and the marker of a hard break ({"break": True})
TextRun(text, bold, italic, code) ==
    [break |-> FALSE, text |-> text, bold |-> bold, italic |-> italic,
     code |-> code]
BreakRun ==
    [break |-> TRUE, text |-> <<>>, bold |-> FALSE, italic |-> FALSE,
     code |-> FALSE]

\* the mutant of _append_run: a run is never merged into the one before it
_append_run_NoMerge(rs, text, bold, italic, code) ==
    IF text = <<>> THEN rs
    ELSE Append(rs, TextRun(text, bold, italic, code))

\* lines 327-342
_append_run(rs, text, bold, italic, code) ==
    IF text = <<>> THEN rs
    ELSE IF /\ rs # <<>>
            /\ ~Last(rs).break
            /\ Last(rs).bold = bold
            /\ Last(rs).italic = italic
            /\ Last(rs).code = code
         THEN [rs EXCEPT ![Len(rs)].text = @ \o text]
         ELSE Append(rs, TextRun(text, bold, italic, code))

\* "TODO: image omitted"
ImageOmitted ==
    <<"T", "O", "D", "O", ":", " ", "i", "m", "a", "g", "e", " ",
      "o", "m", "i", "t", "t", "e", "d">>

\* lines 316-319
ImagePlaceholder(alt_text) ==
    IF alt_text = <<>> THEN ImageOmitted
    ELSE ImageOmitted \o <<" ", "(">> \o alt_text \o <<")">>

\* lines 289-323, the loop over the children from the k-th on
RECURSIVE InlineLoop(_, _, _, _, _)
InlineLoop(children, k, rs, bold, italic) ==
    IF k > Len(children) THEN rs
    ELSE LET child == children[k]
             type == child.type
         IN  IF type = "strong_open"
                 THEN InlineLoop(children, k + 1, rs, TRUE, italic)
             ELSE IF type = "strong_close"
                 THEN InlineLoop(children, k + 1, rs, FALSE, italic)
             ELSE IF type = "em_open"
                 THEN InlineLoop(children, k + 1, rs, bold, TRUE)
             ELSE IF type = "em_close"
                 THEN InlineLoop(children, k + 1, rs, bold, FALSE)
             ELSE IF type = "code_inline"
                 THEN InlineLoop(children, k + 1,
                          _append_run(rs, child.content, FALSE, FALSE, TRUE),
                          bold, italic)
             ELSE IF type = "text"
                 THEN InlineLoop(children, k + 1,
                          _append_run(rs, child.content, bold, italic, FALSE),
                          bold, italic)
             ELSE IF type = "softbreak"
                 THEN InlineLoop(children, k + 1,
                          _append_run(rs, <<" ">>, bold, italic, FALSE),
                          bold, italic)
             ELSE IF type = "hardbreak"
                 THEN InlineLoop(children, k + 1, Append(rs, BreakRun),
                                 bold, italic)
             ELSE IF type = "image"
                 THEN InlineLoop(children, k + 1,
                          _append_run(rs, ImagePlaceholder(child.content),
                                      bold, italic, FALSE),
                          bold, italic)
             ELSE InlineLoop(children, k + 1, rs, bold, italic)

\* an inline token, or its absence (None)
Inline(children) == [present |-> TRUE, children |-> children]
NoInline == [present |-> FALSE, children |-> <<>>]

\* lines 283-324
_inline_runs(token) ==
    IF ~token.present \/ token.children = <<>> THEN <<>>
    ELSE InlineLoop(token.children, 1, <<>>, FALSE, FALSE)

MaxChildren == 4
Children ==
    {Child(t, <<>>) : t \in {"strong_open", "strong_close", "em_open",
                              "em_close", "softbreak", "hardbreak",
                              "link_open", "text", "image"}}
    \cup {Child(t, <<"x">>) : t \in {"text", "code_inline", "image"}}
InlineTokens ==
    {NoInline} \cup
    {Inline(cs) : cs \in UNION {[1..n -> Children] : n \in 0..MaxChildren}}

InlineInit ==
    /\ inline_token \in InlineTokens
    /\ runs = <<>>
    /\ inline_pc = "start"

InlineIdle ==
    /\ inline_token = NoInline
    /\ runs = <<>>
    /\ inline_pc = "idle"

InlineRuns ==
    /\ inline_pc = "start"
    /\ runs' = _inline_runs(inline_token)
    /\ inline_pc' = "done"
    /\ UNCHANGED <<inline_token, sanVars, repoVars, companyVars, saveVars,
                   docVars,
                   profileVars, renders>>

-----------------------------------------------------------------------------
(* The python-docx Document as the renderer uses it, and _DocWriter.       *)
(* A block of the body is a paragraph or a table; every block has an       *)
(* identity, which is what a Paragraph proxy object refers to.  A block    *)
(* removed from the body stays alive as long as a proxy refers to it: it   *)
(* is kept in doc.orphans, and lxml's addnext on it links the new sibling  *)
(* beside it, outside the body.                                            *)

\* the style of a paragraph without a style of its own (the default style)
DefaultStyle == "Normal"

\* the styles python-docx's default template defines, as far as used here
DefaultStyles ==
    {"Normal", "Title", "Heading 1", "Heading 2", "Heading 3", "List Bullet",
     "List Number"}

\* what _apply_table_profile sets on a table; nothing of it is set before
NoProfile == [layout |-> "", width |-> "", halves |-> FALSE, header |-> FALSE]

Para(id, style, rs) ==
    [kind |-> "p", id |-> id, style |-> style, runs |-> rs, indent |-> FALSE,
     cells |-> <<>>, profile |-> NoProfile]

\* a table; cells[r][c] is the sequence of the blocks of cell (r, c):
\* paragraphs and, in a template, tables nested in the cell
Tbl(id, cells) ==
    [kind |-> "tbl", id |-> id, style |-> "", runs |-> <<>>, indent |-> FALSE,
     cells |-> cells, profile |-> NoProfile]

\* paragraph.text: the texts of the runs joined, a break read as a newline
RECURSIVE RunsText(_)
RunsText(rs) ==
    IF rs = <<>> THEN <<>>
    ELSE (IF Head(rs).break THEN <<"\n">> ELSE Head(rs).text)
             \o RunsText(Tail(rs))

Text(paragraph) == RunsText(paragraph.runs)

\* paragraph.text = text: the runs are replaced by one run, which is empty
\* when the text is
SetText(paragraph, text) ==
    [paragraph EXCEPT !.runs = <<TextRun(text, FALSE, FALSE, FALSE)>>]

Has(blocks, id) == \E i \in 1..Len(blocks) : blocks[i].id = id
Pos(blocks, id) == CHOOSE i \in 1..Len(blocks) : blocks[i].id = id
Without(blocks, id) == SelectSeq(blocks, LAMBDA b : b.id # id)
InsertAt(blocks, i, b) ==
    SubSeq(blocks, 1, i) \o <<b>> \o SubSeq(blocks, i + 1, Len(blocks))
Ids(blocks) == [i \in 1..Len(blocks) |-> blocks[i].id]

\* the block with identity id, in the body or removed from it
Block(d, id) ==
    IF Has(d.body, id) THEN d.body[Pos(d.body, id)]
    ELSE d.orphans[Pos(d.orphans, id)]

\* the block with identity id replaced by b, where it is
PutBlock(d, id, b) ==
    IF Has(d.body, id) THEN [d EXCEPT !.body[Pos(d.body, id)] = b]
    ELSE [d EXCEPT !.orphans[Pos(d.orphans, id)] = b]

\* the mutant of AddNext: the element is appended to the end of the body
AddNext_AtEnd(d, anchor, b) ==
    [d EXCEPT !.body = Append(Without(d.body, b.id), b),
              !.orphans = Without(d.orphans, b.id)]

\* lxml's anchor.addnext(b): b, taken out of where it was, becomes the next
\* sibling of the anchor, in the body when the anchor is in the body
AddNext(d, anchor, b) ==
    LET body == Without(d.body, b.id)
        orphans == Without(d.orphans, b.id)
    IN  IF Has(body, anchor)
        THEN [d EXCEPT !.body = InsertAt(body, Pos(body, anchor), b),
                       !.orphans = orphans]
        ELSE [d EXCEPT !.body = body,
                       !.orphans = InsertAt(orphans, Pos(orphans, anchor), b)]

\* doc.add_paragraph(), doc.add_table(): the block is appended to the body
AppendBlock(d, b) ==
    [d EXCEPT !.body = Append(d.body, b), !.next_id = d.next_id + 1]

\* lines 126-129
_insert_paragraph_after(d, anchor) ==
    [AddNext(d, anchor, Para(d.next_id, DefaultStyle, <<>>))
        EXCEPT !.next_id = d.next_id + 1]

\* lines 55-59: a style the document does not define raises KeyError, which
\* is passed over
AssignStyle(d, id, style) ==
    IF style # "" /\ style \in d.styles
    THEN PutBlock(d, id, [Block(d, id) EXCEPT !.style = style])
    ELSE d

Writer(insert_after, reuse_first) ==
    [insert_after |-> insert_after, reuse_first |-> reuse_first]

\* lines 47-61; the paragraph returned is the writer's insert_after
add_paragraph(d, w, style) ==
    LET id == IF w.reuse_first # 0 THEN w.reuse_first ELSE d.next_id
        d1 == IF w.reuse_first # 0 THEN d
              ELSE IF w.insert_after = 0
                  THEN AppendBlock(d, Para(d.next_id, DefaultStyle, <<>>))
              ELSE _insert_paragraph_after(d, w.insert_after)
    IN  [doc |-> AssignStyle(d1, id, style), writer |-> Writer(id, 0)]

\* doc.add_table(rows, cols): every cell holds one empty paragraph
EmptyCells(rows, cols) ==
    [r \in 1..rows |-> [c \in 1..cols |-> <<Para(0, DefaultStyle, <<>>)>>]]

\* the mutant of add_table: reuse_first is left as it was
add_table_KeepReuse(d, w, rows, cols) ==
    LET table == Tbl(d.next_id, EmptyCells(rows, cols))
        d1 == AppendBlock(d, table)
        d2 == IF w.insert_after # 0 THEN AddNext(d1, w.insert_after, table)
              ELSE d1
        d3 == [AddNext(d2, table.id, Para(d2.next_id, DefaultStyle, <<>>))
                  EXCEPT !.next_id = d2.next_id + 1]
    IN  [doc |-> d3, writer |-> Writer(d2.next_id, w.reuse_first)]

\* lines 63-72; the table has identity d.next_id, the paragraph after it
\* d.next_id + 1
add_table(d, w, rows, cols) ==
    LET table == Tbl(d.next_id, EmptyCells(rows, cols))
        d1 == AppendBlock(d, table)
        d2 == IF w.insert_after # 0 THEN AddNext(d1, w.insert_after, table)
              ELSE d1
        d3 == [AddNext(d2, table.id, Para(d2.next_id, DefaultStyle, <<>>))
                  EXCEPT !.next_id = d2.next_id + 1]
    IN  [doc |-> d3, writer |-> Writer(d2.next_id, d2.next_id)]

NewDoc(body, styles) ==
    [body |-> body, orphans |-> <<>>, styles |-> styles,
     next_id |-> Len(body) + 1]

\* A writer as _init_document makes it, over a document of up to
\* MaxTemplate template paragraphs: without an anchor, with a paragraph of
\* the body that kept some text as anchor, or with an empty paragraph of the
\* body as anchor and as the reusable paragraph.
MaxTemplate == 3
MaxBlocks == 3

TemplateText == <<"t">>

\* _render_tokens is not running and no template was given
RenderIdle ==
    /\ template = [kind |-> "none", body |-> <<>>, styles |-> {},
                   fresh |-> FALSE]
    /\ tokens = <<>>
    /\ token_i = 1
    /\ list_stack = <<>>
    /\ in_list_item = 0
    /\ table_rows = <<>>
    /\ md_readable = TRUE
    /\ error = "NoError"

WriterStarts ==
    {[n |-> n, anchor |-> a, reuse |-> r] :
        n \in 0..MaxTemplate, a \in 0..MaxTemplate, r \in BOOLEAN}

WriterInit ==
    /\ \E st \in WriterStarts :
          /\ st.anchor <= st.n
          /\ st.reuse => st.anchor # 0
          /\ document = NewDoc([i \in 1..st.n |->
                             Para(i, DefaultStyle,
                                  IF st.reuse /\ i = st.anchor THEN <<>>
                                  ELSE <<TextRun(TemplateText, FALSE, FALSE, FALSE)>>)],
                          DefaultStyles)
          /\ writer = Writer(st.anchor, IF st.reuse THEN st.anchor ELSE 0)
          /\ template0 = [i \in 1..st.n |-> i]
          /\ anchor0 = st.anchor
          /\ reuse0 = (IF st.reuse THEN st.anchor ELSE 0)
    /\ emitted = <<>>
    /\ doc_pc = "writer"
    /\ RenderIdle

DocIdle ==
    /\ document = NewDoc(<<>>, DefaultStyles)
    /\ writer = Writer(0, 0)
    /\ emitted = <<>>
    /\ template0 = <<>>
    /\ anchor0 = 0
    /\ reuse0 = 0
    /\ doc_pc = "idle"
    /\ RenderIdle

notDocVars ==
    <<sanVars, repoVars, companyVars, saveVars, inlineVars, profileVars,
      renders>>

\* a call of writer.add_paragraph(style)
AddParagraph ==
    /\ doc_pc = "writer"
    /\ Len(emitted) < MaxBlocks
    /\ \E style \in {"Normal", "Heading 1", "No Such Style"} :
          LET r == add_paragraph(document, writer, style)
          IN  /\ document' = r.doc
              /\ writer' = r.writer
              /\ emitted' = Append(emitted, r.writer.insert_after)
    /\ UNCHANGED <<template0, anchor0, reuse0, doc_pc, renderVars, runVars,
                   notDocVars>>

\* a call of writer.add_table(rows, cols)
AddTable ==
    /\ doc_pc = "writer"
    /\ Len(emitted) < MaxBlocks
    /\ \E rows \in 1..2, cols \in 0..1 :
          LET r == add_table(document, writer, rows, cols)
          IN  /\ document' = r.doc
              /\ writer' = r.writer
              /\ emitted' = emitted \o <<document.next_id, r.writer.insert_after>>
    /\ UNCHANGED <<template0, anchor0, reuse0, doc_pc, renderVars, runVars,
                   notDocVars>>

-----------------------------------------------------------------------------
(* render_docx.py: the template, _init_document and                        *)
(* _apply_placeholder_replacements.  The text of a template paragraph is a *)
(* sequence of characters in which a placeholder token is one element.     *)

Contains(text, key) == \E i \in 1..Len(text) : text[i] = key

\* text.replace(key, value)
RECURSIVE ReplaceAll(_, _, _)
ReplaceAll(text, key, value) ==
    IF text = <<>> THEN <<>>
    ELSE (IF Head(text) = key THEN value ELSE <<Head(text)>>)
             \o ReplaceAll(Tail(text), key, value)

\* not text.strip()
IsBlank(text) == \A i \in 1..Len(text) : text[i] \in Whitespace

\* a run holding a page break (doc.add_page_break)
PageBreakRun ==
    [break |-> TRUE, text |-> <<"page">>, bold |-> FALSE, italic |-> FALSE,
     code |-> FALSE]

\* doc.add_paragraph(text) on a new document
TextPara(text) == Para(0, DefaultStyle, <<TextRun(text, FALSE, FALSE, FALSE)>>)

\* the blocks given the identities 1, 2, ... in order
Numbered(blocks) == [i \in 1..Len(blocks) |-> [blocks[i] EXCEPT !.id = i]]

\* lines 105-109: the template _ensure_template writes
DefaultTemplateBody ==
    Numbered(<<
        \* the dash of the source is written "-" here
        TextPara(<<COMPANY, " ", "-", " ", "C", "o", "m", "m", "e", "r", "c",
                   "i", "a", "l", " ", "P", "r", "i", "m", "e", "r">>),
        TextPara(<<"D", "a", "t", "e", ":", " ", DATE>>),
        Para(0, DefaultStyle, <<PageBreakRun>>),
        TextPara(<<PLACEHOLDER>>)>>)

\* What the template argument is: none, a path where nothing exists, a path
\* to a document, or a path to a directory; fresh tells that the document
\* at the path was written by this render.
NoTemplate == [kind |-> "none", body |-> <<>>, styles |-> {}, fresh |-> FALSE]
AbsentTemplate ==
    [kind |-> "absent", body |-> <<>>, styles |-> {}, fresh |-> FALSE]
DirTemplate == [kind |-> "dir", body |-> <<>>, styles |-> {}, fresh |-> FALSE]
\* a file that is no Word document
BadTemplate == [kind |-> "bad", body |-> <<>>, styles |-> {}, fresh |-> FALSE]
TemplateFile(body, styles) ==
    [kind |-> "file", body |-> body, styles |-> styles, fresh |-> FALSE]

\* the mutant of _ensure_template: the default template is written whatever
\* is at the path
_ensure_template_Always(t) ==
    IF t.kind = "none" THEN t
    ELSE [TemplateFile(DefaultTemplateBody, DefaultStyles) EXCEPT !.fresh = TRUE]

\* lines 101-110: what is at the template path afterwards
_ensure_template(t) ==
    IF t.kind = "absent"
    THEN [TemplateFile(DefaultTemplateBody, DefaultStyles) EXCEPT !.fresh = TRUE]
    ELSE t

\* lines 113-117: the first paragraph of the body whose text holds the
\* placeholder, 0 when there is none
_find_placeholder_paragraph(d, placeholder) ==
    LET hits == {i \in 1..Len(d.body) :
                    /\ d.body[i].kind = "p"
                    /\ Contains(Text(d.body[i]), placeholder)}
    IN  IF hits = {} THEN 0
        ELSE d.body[CHOOSE i \in hits : \A j \in hits : i <= j].id

\* lines 120-123
_remove_placeholder_text(paragraph, placeholder) ==
    IF ~Contains(Text(paragraph), placeholder) THEN paragraph
    ELSE SetText(paragraph, ReplaceAll(Text(paragraph), placeholder, <<>>))

\* lines 81-98, for a template argument that is no directory
_init_document(t) ==
    IF t.kind = "none"
    THEN [doc |-> NewDoc(<<>>, DefaultStyles), writer |-> Writer(0, 0)]
    ELSE LET file == _ensure_template(t)
             d == NewDoc(file.body, file.styles)
             id == _find_placeholder_paragraph(d, PLACEHOLDER)
         IN  IF id = 0 THEN [doc |-> d, writer |-> Writer(0, 0)]
             ELSE LET p == _remove_placeholder_text(Block(d, id), PLACEHOLDER)
                  IN  [doc |-> PutBlock(d, id, p),
                       writer |-> Writer(id, IF IsBlank(Text(p)) THEN id ELSE 0)]

\* lines 368-377; the replacements are made in the order COMPANY, DATE
_replace_text_in_paragraph(paragraph, repl) ==
    LET text == Text(paragraph)
        updated == ReplaceAll(ReplaceAll(text, COMPANY, repl.company),
                              DATE, repl.date)
    IN  IF text = <<>> \/ updated = text THEN paragraph
        ELSE SetText(paragraph, updated)

\* lines 352-356 and 361-365: of the paragraphs among the blocks, those that
\* hold CONTACT are removed and the others have their placeholders replaced
ReplaceParagraphs(blocks, repl) ==
    LET kept == SelectSeq(blocks, LAMBDA b :
                    b.kind # "p" \/ ~Contains(Text(b), CONTACT))
    IN  [i \in 1..Len(kept) |->
            IF kept[i].kind = "p"
            THEN _replace_text_in_paragraph(kept[i], repl)
            ELSE kept[i]]

\* lines 359-365: cell.paragraphs are the paragraphs that are children of the
\* cell; a table nested in the cell is not among them
ReplaceInTable(table, repl) ==
    [table EXCEPT !.cells =
        [r \in 1..Len(table.cells) |->
            [c \in 1..Len(table.cells[r]) |->
                ReplaceParagraphs(table.cells[r][c], repl)]]]

\* lines 345-365; a paragraph removed from the body lives on outside it
_apply_placeholder_replacements(d, repl) ==
    LET removed == SelectSeq(d.body, LAMBDA b :
                       b.kind = "p" /\ Contains(Text(b), CONTACT))
        body == ReplaceParagraphs(d.body, repl)
    IN  [d EXCEPT !.body = [i \in 1..Len(body) |->
                               IF body[i].kind = "tbl"
                               THEN ReplaceInTable(body[i], repl)
                               ELSE body[i]],
                  !.orphans = d.orphans \o removed]

-----------------------------------------------------------------------------
(* render_docx.py: _render_tokens and what it calls.  A token has a type,  *)
(* a tag, a content and children; the index into the tokens counts from 1. *)

Token(type, tag, content, children) ==
    [type |-> type, tag |-> tag, content |-> content, children |-> children]

\* a token that has only a type
Mark(type) == Token(type, <<>>, <<>>, <<>>)

\* int(c) for a character that is a digit
DigitValue(c) ==
    CASE c = "0" -> 0 [] c = "1" -> 1 [] c = "2" -> 2 [] c = "3" -> 3
      [] c = "4" -> 4 [] c = "5" -> 5 [] c = "6" -> 6 [] c = "7" -> 7
      [] c = "8" -> 8 [] c = "9" -> 9

\* line 167
HeadingLevel(token) ==
    IF token.tag # <<>> /\ token.tag[1] = "h" THEN DigitValue(token.tag[2])
    ELSE 1

\* lines 168 and 176: the token after the i-th when it is an inline token
InlineAfter(toks, i) ==
    IF i + 1 <= Len(toks) /\ toks[i + 1].type = "inline"
    THEN Inline(toks[i + 1].children)
    ELSE NoInline

\* the mutant of _skip_to: the index of the opening token is returned less
\* one, so that the loop stays at the token
_skip_to_Stay(toks, start_index, end_type) == start_index - 1

\* lines 209-213: the first index after start_index of a token of type
\* end_type, the index past the end when there is none
_skip_to(toks, start_index, end_type) ==
    LET hits == {j \in (start_index + 1)..Len(toks) :
                    toks[j].type = end_type}
    IN  IF hits = {} THEN Len(toks) + 1
        ELSE CHOOSE j \in hits : \A k \in hits : j <= k

_style_exists(d, style) == style \in d.styles

\* the mutant of _paragraph_style: the kind of the outermost open list
_paragraph_style_Outermost(stack, depth) ==
    IF depth > 0 /\ stack # <<>>
    THEN IF Head(stack) = "bullet" THEN "List Bullet" ELSE "List Number"
    ELSE "Normal"

\* the mutant of _heading_style: the levels from 3 on are not flattened
_heading_style_Level3(d, level) ==
    IF level <= 1
    THEN IF _style_exists(d, "Title") THEN "Title" ELSE "Heading 1"
    ELSE IF level = 2 THEN "Heading 1"
    ELSE "Heading 3"

\* lines 216-221
_heading_style(d, level) ==
    IF level <= 1
    THEN IF _style_exists(d, "Title") THEN "Title" ELSE "Heading 1"
    ELSE IF level = 2 THEN "Heading 1"
    ELSE "Heading 2"

\* lines 224-232
_paragraph_style(stack, depth) ==
    IF depth > 0 /\ stack # <<>>
    THEN IF Last(stack) = "bullet" THEN "List Bullet" ELSE "List Number"
    ELSE "Normal"

\* lines 256-270: a run is added for every break and for every text that
\* is not empty
_add_runs(rs, specs) ==
    rs \o SelectSeq(specs, LAMBDA r : r.break \/ r.text # <<>>)

\* lines 243-253
_add_paragraph(d, w, style, specs, list_indent) ==
    LET r == add_paragraph(d, w, style)
        id == r.writer.insert_after
        p == Block(r.doc, id)
    IN  [doc |-> PutBlock(r.doc, id,
                     [p EXCEPT !.indent = p.indent \/ list_indent,
                               !.runs = _add_runs(p.runs, specs)]),
         writer |-> r.writer]

\* str.splitlines of a text whose only line ends are newlines
RECURSIVE SplitLines(_, _)
SplitLines(text, line) ==
    IF text = <<>> THEN (IF line = <<>> THEN <<>> ELSE <<line>>)
    ELSE IF Head(text) = "\n" THEN <<line>> \o SplitLines(Tail(text), <<>>)
    ELSE SplitLines(Tail(text), Append(line, Head(text)))

\* lines 274-276
CodeLines(content) ==
    LET lines == SplitLines(RStrip(content, {"\n"}), <<>>)
    IN  IF lines = <<>> THEN << <<>> >> ELSE lines

\* lines 277-280, from the k-th line on: a paragraph with one run in the
\* fixed-width font for each line
RECURSIVE AddCodeLines(_, _, _, _, _)
AddCodeLines(d, w, lines, k, style) ==
    IF k > Len(lines) THEN [doc |-> d, writer |-> w]
    ELSE LET r == add_paragraph(d, w, style)
             id == r.writer.insert_after
             p == Block(r.doc, id)
             d1 == PutBlock(r.doc, id,
                       [p EXCEPT !.runs = Append(p.runs,
                           TextRun(lines[k], FALSE, FALSE, TRUE))])
         IN  AddCodeLines(d1, r.writer, lines, k + 1, style)

\* lines 273-280
_add_code_block(d, w, content, style) ==
    AddCodeLines(d, w, CodeLines(content), 1, style)

\* lines 513-531, the loop from the i-th token on; end is the index of the
\* table_close token, the index past the end when there is none.  rows holds
\* the list row_cells itself, not a copy: the last `shared` rows are the
\* list that a cell met before the next tr_open is appended to.
RECURSIVE ParseTable(_, _, _, _, _)
ParseTable(toks, i, rows, row_cells, shared) ==
    IF i > Len(toks) THEN [rows |-> rows, end |-> i]
    ELSE LET type == toks[i].type
         IN  IF type = "tr_open"
                 THEN ParseTable(toks, i + 1, rows, <<>>, 0)
             ELSE IF type \in {"th_open", "td_open"}
                 THEN LET cells == Append(row_cells,
                                       _inline_runs(InlineAfter(toks, i)))
                      IN  ParseTable(toks, i + 1,
                              [r \in 1..Len(rows) |->
                                  IF r > Len(rows) - shared THEN cells
                                  ELSE rows[r]],
                              cells, shared)
             ELSE IF type = "tr_close"
                 THEN ParseTable(toks, i + 1, Append(rows, row_cells),
                                 row_cells, shared + 1)
             ELSE IF type = "table_close"
                 THEN [rows |-> rows, end |-> i]
             ELSE ParseTable(toks, i + 1, rows, row_cells, shared)

_parse_table(toks, start_index) ==
    ParseTable(toks, start_index + 1, <<>>, <<>>, 0)

\* the mutant of TableCols: the table is as wide as its first row
TableCols_FirstRow(rows) == Len(rows[1])

\* line 539: max(len(row) for row in rows)
TableCols(rows) ==
    LET lens == {Len(rows[r]) : r \in 1..Len(rows)}
    IN  CHOOSE m \in lens : \A n \in lens : n <= m

\* lines 534-548
_render_table(d, w, rows) ==
    IF rows = <<>> THEN [doc |-> d, writer |-> w]
    ELSE LET cols == TableCols(rows)
             r == add_table(d, w, Len(rows), cols)
             table == Block(r.doc, d.next_id)
             filled ==
                 [ri \in 1..Len(rows) |->
                     [ci \in 1..cols |->
                         LET specs == IF ci <= Len(rows[ri]) THEN rows[ri][ci]
                                      ELSE <<>>
                             cell == table.cells[ri][ci]
                             p == SetText(cell[1], <<>>)
                         IN  <<[p EXCEPT !.runs = _add_runs(p.runs, specs)]>>
                                 \o Tail(cell)]]
         IN  [doc |-> PutBlock(r.doc, table.id, [table EXCEPT !.cells = filled]),
              writer |-> r.writer]

\* lines 475-502
_apply_table_profile(table) ==
    [table EXCEPT !.profile =
        [layout |-> "fixed", width |-> "pct 5000",
         halves |-> (table.cells # <<>> /\ Len(table.cells[1]) = 2),
         header |-> (table.cells # <<>>)]]

\* the mutant of SkipToken: a token of an unknown type gives an empty
\* paragraph
SkipToken_EmptyParagraph(st) ==
    LET r == _add_paragraph(st.doc, st.writer, "Normal", <<>>, FALSE)
    IN  [st EXCEPT !.doc = r.doc, !.writer = r.writer, !.i = @ + 1]

\* line 206
SkipToken(st) == [st EXCEPT !.i = @ + 1]

\* lines 153-154
PopList(stack) == IF stack # <<>> THEN Front(stack) ELSE stack

\* the mutant of CloseItem: the depth is not floored at zero
CloseItem_NoFloor(depth) == depth - 1

\* line 162
CloseItem(depth) == Max(0, depth - 1)

\* The state of the loop of _render_tokens, and one iteration of it
\* (lines 143-206), for an index that is not past the end.
Loop(toks, i, stack, depth, d, w) ==
    [tokens |-> toks, i |-> i, list_stack |-> stack,
     in_list_item |-> depth, doc |-> d, writer |-> w]

RenderStep(st) ==
    LET token == st.tokens[st.i]
        type == token.type
        inline == InlineAfter(st.tokens, st.i)
    IN  IF type = "bullet_list_open" THEN
            [st EXCEPT !.list_stack = Append(@, "bullet"), !.i = @ + 1]
        ELSE IF type = "ordered_list_open" THEN
            [st EXCEPT !.list_stack = Append(@, "ordered"), !.i = @ + 1]
        ELSE IF type \in {"bullet_list_close", "ordered_list_close"} THEN
            [st EXCEPT !.list_stack = PopList(@), !.i = @ + 1]
        ELSE IF type = "list_item_open" THEN
            [st EXCEPT !.in_list_item = @ + 1, !.i = @ + 1]
        ELSE IF type = "list_item_close" THEN
            [st EXCEPT !.in_list_item = CloseItem(@), !.i = @ + 1]
        ELSE IF type = "heading_open" THEN
            LET r == _add_paragraph(st.doc, st.writer,
                         _heading_style(st.doc, HeadingLevel(token)),
                         _inline_runs(inline), FALSE)
            IN  [st EXCEPT !.doc = r.doc, !.writer = r.writer,
                           !.i = _skip_to(st.tokens, st.i, "heading_close") + 1]
        ELSE IF type = "paragraph_open" THEN
            LET r == _add_paragraph(st.doc, st.writer,
                         _paragraph_style(st.list_stack, st.in_list_item),
                         _inline_runs(inline),
                         st.in_list_item > 0 /\ st.list_stack # <<>>)
            IN  [st EXCEPT !.doc = r.doc, !.writer = r.writer,
                           !.i = _skip_to(st.tokens, st.i, "paragraph_close") + 1]
        ELSE IF type = "hr" THEN
            LET r == _add_paragraph(st.doc, st.writer,
                         _paragraph_style(<<>>, 0), <<>>, FALSE)
            IN  [st EXCEPT !.doc = r.doc, !.writer = r.writer, !.i = @ + 1]
        ELSE IF type = "fence" THEN
            LET r == _add_code_block(st.doc, st.writer, token.content,
                         _paragraph_style(<<>>, 0))
            IN  [st EXCEPT !.doc = r.doc, !.writer = r.writer, !.i = @ + 1]
        ELSE IF type = "table_open" THEN
            LET parsed == _parse_table(st.tokens, st.i)
                r == _render_table(st.doc, st.writer, parsed.rows)
                id == st.doc.next_id
                d == IF parsed.rows = <<>> THEN r.doc
                     ELSE PutBlock(r.doc, id,
                              _apply_table_profile(Block(r.doc, id)))
            IN  [st EXCEPT !.doc = d, !.writer = r.writer,
                           !.i = parsed.end + 1]
        ELSE SkipToken(st)

\* line 142: the loop run to its end
RECURSIVE RenderAll(_)
RenderAll(st) ==
    IF st.i > Len(st.tokens) THEN st ELSE RenderAll(RenderStep(st))

-----------------------------------------------------------------------------
(* The token streams markdown-it gives for a markdown text of up to        *)
(* MaxMdBlocks blocks, and the templates a render is run with.             *)

InlineToken(children) == Token("inline", <<>>, <<>>, children)

PlainText == <<Child("text", <<"x">>)>>
StrongText ==
    <<Child("text", <<"x">>), Child("strong_open", <<>>),
      Child("text", <<"y">>), Child("strong_close", <<>>)>>

MdHeading(digit) ==
    <<Token("heading_open", <<"h", digit>>, <<>>, <<>>), InlineToken(StrongText),
      Token("heading_close", <<"h", digit>>, <<>>, <<>>)>>

MdParagraph ==
    <<Mark("paragraph_open"), InlineToken(PlainText), Mark("paragraph_close")>>

MdList(kind) ==
    <<Mark(kind \o "_list_open"), Mark("list_item_open")>> \o MdParagraph
        \o <<Mark("list_item_close"), Mark(kind \o "_list_close")>>

MdFence(content) == <<Token("fence", <<"c", "o", "d", "e">>, content, <<>>)>>

MdCell(open, close, children) ==
    <<Mark(open), InlineToken(children), Mark(close)>>

\* a table of a heading row and one row under it, two columns wide
MdTable ==
    <<Mark("table_open"), Mark("thead_open"), Mark("tr_open")>>
        \o MdCell("th_open", "th_close", PlainText)
        \o MdCell("th_open", "th_close", StrongText)
        \o <<Mark("tr_close"), Mark("thead_close"), Mark("tbody_open"),
             Mark("tr_open")>>
        \o MdCell("td_open", "td_close", PlainText)
        \o MdCell("td_open", "td_close", <<>>)
        \o <<Mark("tr_close"), Mark("tbody_close"), Mark("table_close")>>

\* a block quote: its markers are of no type _render_tokens knows
MdQuote ==
    <<Mark("blockquote_open")>> \o MdParagraph \o <<Mark("blockquote_close")>>

MdBlocks ==
    {MdHeading(digit) : digit \in {"1", "2", "3", "4", "6"}}
    \cup {MdParagraph, MdList("bullet"), MdList("ordered"), <<Mark("hr")>>,
          MdFence(<<"a", "\n", "\n", "b", "\n">>), MdTable, MdQuote}

MaxMdBlocks == 2

RECURSIVE Concat(_)
Concat(seqs) == IF seqs = <<>> THEN <<>> ELSE Head(seqs) \o Concat(Tail(seqs))

MdStreams ==
    {Concat(blocks) : blocks \in UNION {[1..n -> MdBlocks] : n \in 0..MaxMdBlocks}}

\* Templates: the default one as a file, one whose placeholder paragraph
\* keeps a text and is followed by a paragraph, one whose placeholder
\* paragraph keeps a blank and that defines few styles, one without the
\* placeholder, and one whose placeholder paragraph also holds CONTACT.
FewStyles == {"Normal", "Heading 1"}

RenderTemplates ==
    {NoTemplate, AbsentTemplate, DirTemplate, BadTemplate,
     TemplateFile(DefaultTemplateBody, DefaultStyles),
     TemplateFile(Numbered(<<TextPara(<<COMPANY>>),
                             TextPara(<<"a", PLACEHOLDER>>),
                             TextPara(<<"t">>)>>),
                  DefaultStyles \ {"Title"}),
     TemplateFile(Numbered(<<TextPara(<<" ", PLACEHOLDER>>),
                             TextPara(<<"t">>)>>), FewStyles),
     TemplateFile(Numbered(<<TextPara(<<"t">>)>>), {"Normal", "Title"}),
     TemplateFile(Numbered(<<TextPara(<<"t">>),
                             TextPara(<<CONTACT, PLACEHOLDER>>),
                             TextPara(<<"u">>)>>), DefaultStyles)}

LeadPathSet == {LeadPaths[i] : i \in 1..Len(LeadPaths)}

\* no lead record at all, one beside the markdown file that names the
\* company, or a _dossier directory the process may not search
RenderLeadFiles ==
    {[path \in LeadPathSet |-> Missing],
     [path \in LeadPathSet |->
         IF path = LeadPaths[1]
         THEN Payload("object", LeadName(1, "n"), Absent, Absent)
         ELSE Missing],
     [path \in LeadPathSet |->
         IF path = LeadPaths[2] THEN Unsearchable ELSE Missing]}

RenderCompanyInit ==
    /\ md_file = <<<<"d">>, <<"p">>>>
    /\ lead_files \in RenderLeadFiles
    \* the Python that raises, where there is something to raise
    /\ strict_exists =
           (\E path \in LeadPathSet : lead_files[path].kind = "unsearchable")
    /\ resolved_name = Unset
    /\ replacements = NoReplacements

-----------------------------------------------------------------------------
(* render_primer_docx, step by step.                                       *)

\* the writer was created over the document: what the body and the cursor
\* were then
CreatedOver(d, w) ==
    /\ template0 = Ids(d.body)
    /\ anchor0 = w.insert_after
    /\ reuse0 = w.reuse_first
    /\ emitted = <<>>

RenderInit ==
    /\ template \in RenderTemplates
    /\ tokens \in MdStreams
    /\ token_i = 1
    /\ list_stack = <<>>
    /\ in_list_item = 0
    /\ table_rows = <<>>
    /\ document = NewDoc(<<>>, DefaultStyles)
    /\ writer = Writer(0, 0)
    /\ CreatedOver(document, writer)
    /\ md_readable \in BOOLEAN
    \* nothing of a text that cannot be read reaches the program
    /\ ~md_readable => tokens = <<>>
    /\ error = "NoError"
    /\ doc_pc = "start"

notRenderVars == <<sanVars, repoVars, inlineVars, profileVars, renders>>

\* the destination holds an older, complete document, and nothing is at
\* its temporary path
RenderSaveInit ==
    /\ save_path = "out.docx"
    /\ prior = FileOf("old", MaxParts)
    /\ disk = [p \in DiskPaths |-> IF p = save_path THEN prior ELSE NoFile]
    /\ save_pc = "idle"

\* line 25, md_file.read_text: the error of a file that cannot be read goes
\* to the caller
ReadMarkdown ==
    /\ doc_pc = "start"
    /\ IF md_readable
       THEN doc_pc' = "read" /\ UNCHANGED error
       ELSE doc_pc' = "raised" /\ error' = "OSError"
    /\ UNCHANGED <<document, writer, emitted, template0, anchor0, reuse0,
                   renderVars, md_readable, companyVars, saveVars,
                   notRenderVars>>

\* the mutant of InitRaises: without the check of lines 84-85 a directory
\* is handed to Document, as a file that is no Word document is
InitRaises_NoDirectoryCheck(t) ==
    IF t.kind \in {"dir", "bad"} THEN "PackageNotFoundError" ELSE "NoError"

\* lines 84-86: a template path that is a directory raises ValueError, a
\* file that is no Word document makes Document raise
InitRaises(t) ==
    IF t.kind = "dir" THEN "ValueError"
    ELSE IF t.kind = "bad" THEN "PackageNotFoundError"
    ELSE "NoError"

\* line 26
InitDocument ==
    /\ doc_pc = "read"
    /\ IF InitRaises(template) # "NoError"
       THEN /\ doc_pc' = "raised"
            /\ error' = InitRaises(template)
            /\ UNCHANGED <<document, writer, template, template0, anchor0,
                           reuse0>>
       ELSE LET r == _init_document(template)
            IN  /\ document' = r.doc
                /\ writer' = r.writer
                /\ template' = _ensure_template(template)
                /\ template0' = Ids(r.doc.body)
                /\ anchor0' = r.writer.insert_after
                /\ reuse0' = r.writer.reuse_first
                /\ doc_pc' = "init"
                /\ UNCHANGED error
    /\ UNCHANGED <<emitted, tokens, token_i, list_stack, in_list_item,
                   table_rows, md_readable, companyVars, saveVars,
                   notRenderVars>>

\* line 27; the error of _resolve_company_name goes to the caller.
\* (_apply_style_profile, line 28, changes attributes of styles
\* the document defines; it adds no style and touches no block.)
ApplyPlaceholders ==
    /\ doc_pc = "init"
    /\ resolved_name' = _resolve_company_name(md_file, lead_files)
    /\ IF resolved_name' = Raised
       THEN /\ doc_pc' = "raised"
            /\ error' = "PermissionError"
            /\ UNCHANGED <<document, replacements>>
       ELSE /\ replacements' = Replacements(md_file, lead_files)
            /\ document' =
                   _apply_placeholder_replacements(document, replacements')
            /\ doc_pc' = "replaced"
            /\ UNCHANGED error
    /\ UNCHANGED <<writer, emitted, template0, anchor0, reuse0, renderVars,
                   md_readable, md_file, lead_files, strict_exists, saveVars,
                   notRenderVars>>

\* one iteration of the loop of _render_tokens (lines 142-206)
RenderToken ==
    /\ doc_pc = "replaced"
    /\ token_i <= Len(tokens)
    /\ LET st == RenderStep(Loop(tokens, token_i, list_stack, in_list_item,
                                 document, writer))
       IN  /\ token_i' = st.i
           /\ list_stack' = st.list_stack
           /\ in_list_item' = st.in_list_item
           /\ document' = st.doc
           /\ writer' = st.writer
    /\ UNCHANGED <<emitted, template0, anchor0, reuse0, doc_pc, template,
                   tokens, table_rows, runVars, companyVars, saveVars,
                   notRenderVars>>

\* line 142: the index is past the last token
RenderDone ==
    /\ doc_pc = "replaced"
    /\ token_i > Len(tokens)
    /\ doc_pc' = "rendered"
    /\ UNCHANGED <<document, writer, emitted, template0, anchor0, reuse0,
                   renderVars, runVars, companyVars, saveVars, notRenderVars>>

\* the mutant of ReadyToSave: the document is also saved before
\* _render_tokens has run
ReadyToSave_BeforeTokens(pc) == pc \in {"replaced", "rendered"}

\* lines 30-32: the statements after the return of _render_tokens
ReadyToSave(pc) == pc = "rendered"

\* lines 32-33: the directory of the destination is made, which raises when
\* it cannot be, and _save_docx_atomic is called
SaveDocument ==
    /\ ReadyToSave(doc_pc)
    /\ save_pc = "idle"
    /\ \E made \in BOOLEAN :
           IF made
           THEN save_pc' = "start" /\ UNCHANGED <<doc_pc, error>>
           ELSE doc_pc' = "raised" /\ error' = "OSError" /\ UNCHANGED save_pc
    /\ UNCHANGED <<document, writer, emitted, template0, anchor0, reuse0,
                   renderVars, md_readable, disk, save_path, prior,
                   companyVars, notRenderVars>>

\* line 134: doc.save raises while it writes the temporary file
SaveRaises ==
    /\ doc_pc = "rendered"
    /\ save_pc \in {"start", "writing"}
    /\ doc_pc' = "raised"
    /\ error' = "OSError"
    /\ save_pc' = "failed"
    /\ UNCHANGED <<document, writer, emitted, template0, anchor0, reuse0,
                   renderVars, md_readable, disk, save_path, prior,
                   companyVars, notRenderVars>>

\* _render_table on a grid of up to MaxRows rows of up to MaxCols cells,
\* called with a writer as _init_document makes it.
MaxRows == 2
MaxCols == 2

CellRuns ==
    {<<>>,
     <<TextRun(<<"x">>, TRUE, FALSE, FALSE), BreakRun,
       TextRun(<<"y">>, FALSE, FALSE, TRUE)>>}

GridRows == UNION {[1..n -> CellRuns] : n \in 0..MaxCols}
Grids == UNION {[1..n -> GridRows] : n \in 0..MaxRows}

TableInit ==
    /\ table_rows \in Grids
    /\ \E t \in {NoTemplate, AbsentTemplate,
                  TemplateFile(Numbered(<<TextPara(<<"a", PLACEHOLDER>>),
                                          TextPara(<<"t">>)>>), DefaultStyles)} :
          LET r == _init_document(t)
          IN  /\ template = _ensure_template(t)
              /\ document = r.doc
              /\ writer = r.writer
              /\ CreatedOver(r.doc, r.writer)
    /\ tokens = <<>>
    /\ token_i = 1
    /\ list_stack = <<>>
    /\ in_list_item = 0
    /\ md_readable = TRUE
    /\ error = "NoError"
    /\ doc_pc = "table"

\* lines 534-548
RenderTable ==
    /\ doc_pc = "table"
    /\ LET r == _render_table(document, writer, table_rows)
       IN  /\ document' = r.doc
           /\ writer' = r.writer
    /\ doc_pc' = "table_done"
    /\ UNCHANGED <<emitted, template0, anchor0, reuse0, renderVars, runVars,
                   companyVars, saveVars, notRenderVars>>

\* _apply_placeholder_replacements on a template of up to MaxTemplateBlocks
\* blocks: paragraphs of one run or of two, with and without placeholders,
\* tables whose cells hold one paragraph or two, and tables with a cell that
\* holds another table.
MaxTemplateBlocks == 2

TemplateTexts ==
    {<<"t">>, <<COMPANY>>, <<"a", COMPANY, DATE, COMPANY>>, <<DATE, "b">>,
     <<CONTACT>>, <<COMPANY, CONTACT, "c">>, <<PLACEHOLDER>>}

TemplateParas ==
    {TextPara(text) : text \in TemplateTexts}
    \cup {Para(0, DefaultStyle, <<>>),
          Para(0, "Title", <<TextRun(<<"a">>, TRUE, FALSE, FALSE),
                             TextRun(<<"b">>, FALSE, FALSE, FALSE)>>),
          Para(0, DefaultStyle, <<TextRun(<<"a">>, TRUE, FALSE, FALSE),
                                  TextRun(<<COMPANY>>, FALSE, TRUE, FALSE)>>)}

CellParas ==
    {TextPara(<<"t">>), TextPara(<<COMPANY, DATE>>), TextPara(<<CONTACT>>)}

TemplateCells == UNION {[1..n -> CellParas] : n \in 1..2}

TemplateTables ==
    {Tbl(0, << <<cell>> >>) : cell \in TemplateCells}
    \cup {Tbl(0, << <<<<TextPara(<<DATE>>)>>, <<TextPara(<<"t">>)>>>>,
                    <<<<TextPara(<<CONTACT, "c">>), TextPara(<<"u">>)>>,
                      <<TextPara(<<"a", COMPANY>>)>>>> >>)}
    \cup {Tbl(0, << << <<TextPara(<<"t">>),
                        Tbl(0, << << <<TextPara(text)>> >> >>),
                        TextPara(<<>>)>> >> >>) :
              text \in {<<COMPANY>>, <<CONTACT>>}}

PlaceholderTemplates ==
    {TemplateFile(Numbered(blocks), DefaultStyles) :
        blocks \in UNION {[1..n -> TemplateParas \cup TemplateTables] :
                             n \in 0..MaxTemplateBlocks}}

\* the document is opened and the writer created (line 26); the placeholders
\* are not yet replaced
\* _render_tokens on token streams that markdown-it may or may not give:
\* every sequence of up to MaxTokens list, paragraph and block quote
\* markers, and the streams of a list nested in an item of another.
MaxTokens == 4

ListMarks ==
    {Mark(type) : type \in {"bullet_list_open", "ordered_list_open",
                            "bullet_list_close", "list_item_open",
                            "list_item_close", "paragraph_open",
                            "paragraph_close", "blockquote_open"}}

NestedList(outer, inner) ==
    <<Mark(outer \o "_list_open"), Mark("list_item_open")>> \o MdParagraph
        \o <<Mark(inner \o "_list_open"), Mark("list_item_open")>>
        \o MdParagraph
        \o <<Mark("list_item_close"), Mark(inner \o "_list_close")>>
        \o MdParagraph
        \o <<Mark("list_item_close"), Mark(outer \o "_list_close")>>
        \o MdParagraph

ListKinds == {"bullet", "ordered"}

ListStreams ==
    UNION {[1..n -> ListMarks] : n \in 0..MaxTokens}
    \cup {NestedList(outer, inner) : outer, inner \in ListKinds}

\* every sequence of up to MaxTokens opening and closing tokens of
\* headings, paragraphs and tables, each with or without its counterpart
BlockMarks ==
    {Token("heading_open", <<"h", "2">>, <<>>, <<>>)} \cup
    {Mark(type) : type \in {"heading_close", "paragraph_open",
                            "paragraph_close", "table_open", "td_open",
                            "tr_close", "table_close"}}

BlockStreams == UNION {[1..n -> BlockMarks] : n \in 0..MaxTokens}

\* a fenced code block of every content of up to MaxContent characters,
\* each a letter or a newline
MaxContent == 4

FenceStreams ==
    {MdFence(content) :
        content \in UNION {[1..n -> {"a", "\n"}] : n \in 0..MaxContent}}

\* a template of one placeholder paragraph that defines no list style
PlainTemplate == TemplateFile(Numbered(<<TextPara(<<PLACEHOLDER>>)>>), FewStyles)

\* _render_tokens is called with the document and the writer of
\* _init_document
TokensInit(streams, templates) ==
    /\ tokens \in streams
    /\ \E t \in templates :
          LET r == _init_document(t)
          IN  /\ template = _ensure_template(t)
              /\ document = r.doc
              /\ writer = r.writer
              /\ CreatedOver(r.doc, r.writer)
    /\ token_i = 1
    /\ list_stack = <<>>
    /\ in_list_item = 0
    /\ table_rows = <<>>
    /\ md_readable = TRUE
    /\ error = "NoError"
    /\ doc_pc = "replaced"

\* the writer as _init_document makes it over each template, before any
\* call of it
FirstBlockInit ==
    /\ \E t \in {f \in RenderTemplates : f.kind \in {"none", "absent", "file"}} :
          LET r == _init_document(t)
          IN  /\ template = _ensure_template(t)
              /\ document = r.doc
              /\ writer = r.writer
              /\ CreatedOver(r.doc, r.writer)
    /\ tokens = <<>>
    /\ token_i = 1
    /\ list_stack = <<>>
    /\ in_list_item = 0
    /\ table_rows = <<>>
    /\ md_readable = TRUE
    /\ error = "NoError"
    /\ doc_pc = "writer"

PlaceholdersInit ==
    /\ template \in PlaceholderTemplates
    /\ LET r == _init_document(template)
       IN  /\ document = r.doc
           /\ writer = r.writer
           /\ CreatedOver(r.doc, r.writer)
    /\ tokens = <<>>
    /\ token_i = 1
    /\ list_stack = <<>>
    /\ in_list_item = 0
    /\ table_rows = <<>>
    /\ md_readable = TRUE
    /\ error = "NoError"
    /\ doc_pc = "init"

-----------------------------------------------------------------------------
(* render_docx._apply_style_profile: the baseline attributes of the        *)
(* heading and body styles.  An attribute is NoAttr when the style does    *)
(* not define it (python-docx reads it as None) and <<v>> when it is set.  *)

NoAttr == <<>>
\* docx.shared.Pt: a length in English Metric Units, 12700 to the point.
Pt(points) == points * 12700
PtAttr(points) == IF points = NoAttr THEN NoAttr ELSE <<Pt(points[1])>>

Profile(size, bold, before, after, keep) ==
    [font_size_pt |-> size, bold |-> bold, spacing_before_pt |-> before,
     spacing_after_pt |-> after, keep_with_next |-> keep]

profiles ==
    [style_name \in {"Title", "Heading 1", "Heading 2", "Heading 3", "Normal"}
        |-> CASE style_name = "Title" ->
                    Profile(<<18>>, <<TRUE>>, <<24>>, <<12>>, <<TRUE>>)
              [] style_name = "Heading 1" ->
                    Profile(<<16>>, <<TRUE>>, <<24>>, <<0>>, <<TRUE>>)
              [] style_name = "Heading 2" ->
                    Profile(<<14>>, <<TRUE>>, <<10>>, <<0>>, <<TRUE>>)
              [] style_name = "Heading 3" ->
                    Profile(NoAttr, <<TRUE>>, <<10>>, <<0>>, <<TRUE>>)
              [] style_name = "Normal" ->
                    Profile(NoAttr, NoAttr, <<9>>, <<9>>, NoAttr)]

StyleAttrs(size, bold, before, after, keep) ==
    [size |-> size, bold |-> bold, space_before |-> before,
     space_after |-> after, keep_with_next |-> keep]

\* The mutant assigns the baseline whether or not the attribute is set.
SetIfNone_Overwrite(current, baseline) ==
    IF baseline # NoAttr THEN baseline ELSE current

\* if profile.get(k) is not None and <attribute> is None: <attribute> = ...
SetIfNone(current, baseline) ==
    IF baseline # NoAttr /\ current = NoAttr THEN baseline ELSE current

ApplyProfile(style, profile) ==
    StyleAttrs(SetIfNone(style.size, PtAttr(profile.font_size_pt)),
               SetIfNone(style.bold, profile.bold),
               SetIfNone(style.space_before, PtAttr(profile.spacing_before_pt)),
               SetIfNone(style.space_after, PtAttr(profile.spacing_after_pt)),
               SetIfNone(style.keep_with_next, profile.keep_with_next))

\* doc.styles[style_name] raises KeyError for a style the document lacks,
\* and the loop continues with the next profile.
_apply_style_profile(styles) ==
    [style_name \in DOMAIN styles |->
        IF style_name \in DOMAIN profiles
        THEN ApplyProfile(styles[style_name], profiles[style_name])
        ELSE styles[style_name]]

\* The documents: at most MaxStyles of the profiled styles and one style the
\* profile does not name, each attribute either unset or set by the template
\* to a value of its own.
MaxStyles == 1
MaxProfileCalls == 2
TemplateStyleAttrs ==
    {StyleAttrs(size, bold, before, after, keep) :
        size \in {NoAttr, <<Pt(11)>>}, bold \in {NoAttr, <<FALSE>>},
        before \in {NoAttr, <<Pt(3)>>}, after \in {NoAttr, <<Pt(3)>>},
        keep \in {NoAttr, <<FALSE>>}}
StyleNames == DOMAIN profiles \cup {"List Bullet"}
StyleSheets ==
    UNION {[names -> TemplateStyleAttrs] :
            names \in {n \in SUBSET StyleNames : Cardinality(n) <= MaxStyles}}

ProfileInit == style_attrs \in StyleSheets /\ profile_calls = 0
ProfileIdle == style_attrs = <<>> /\ profile_calls = 0

ApplyStyleProfile ==
    /\ profile_calls < MaxProfileCalls
    /\ style_attrs' = _apply_style_profile(style_attrs)
    /\ profile_calls' = profile_calls + 1
    /\ UNCHANGED <<sanVars, repoVars, companyVars, saveVars, inlineVars,
                   docVars, renders>>

-----------------------------------------------------------------------------
(* render_primer_docx called again with the same arguments.                *)

\* The renders that start from each template: a markdown text of at most
\* one block.
TemplateRenderInit ==
    /\ template \in RenderTemplates
    /\ tokens \in {<<>>} \cup MdBlocks
    /\ token_i = 1
    /\ list_stack = <<>>
    /\ in_list_item = 0
    /\ table_rows = <<>>
    /\ document = NewDoc(<<>>, DefaultStyles)
    /\ writer = Writer(0, 0)
    /\ CreatedOver(document, writer)
    /\ md_readable \in BOOLEAN
    /\ ~md_readable => tokens = <<>>
    /\ error = "NoError"
    /\ doc_pc = "start"

\* the call has returned or raised
RenderEnded == save_pc = "done" \/ doc_pc = "raised"

MaxRenders == 2

\* lines 18-33, entered once more: the arguments, the markdown file, the
\* lead records and the files on disk are what the call before left
RenderAgain ==
    /\ RenderEnded
    /\ renders < MaxRenders
    /\ renders' = renders + 1
    /\ token_i' = 1
    /\ list_stack' = <<>>
    /\ in_list_item' = 0
    /\ table_rows' = <<>>
    /\ document' = NewDoc(<<>>, DefaultStyles)
    /\ writer' = Writer(0, 0)
    /\ template0' = <<>>
    /\ anchor0' = 0
    /\ reuse0' = 0
    /\ emitted' = <<>>
    /\ error' = "NoError"
    /\ doc_pc' = "start"
    /\ resolved_name' = Unset
    /\ replacements' = NoReplacements
    /\ prior' = disk[save_path]
    /\ save_pc' = "idle"
    /\ UNCHANGED <<template, tokens, md_readable, md_file, lead_files,
                   strict_exists, disk, save_path, sanVars, repoVars,
                   inlineVars, profileVars>>

-----------------------------------------------------------------------------
(* The claims.                                                             *)

\* the characters of x that are neither whitespace nor invalid, in order
WordChars(x) ==
    SelectSeq(x, LAMBDA c : c \notin Whitespace \cup _INVALID_FOLDER_CHARS)

\* the indices of those characters
WordIndices(x) ==
    SelectSeq(Indices(Len(x)),
              LAMBDA i : x[i] \notin Whitespace \cup _INVALID_FOLDER_CHARS)

\* C8: sanitize_folder_name returns the input's characters in order, without
\* the characters < > : " / \ | ? *, with every run of whitespace between two
\* kept characters collapsed to one space, with no leading whitespace and no
\* trailing space or period, and at most 80 characters long; an input of at
\* most 80 characters loses nothing else than trailing periods, and an input
\* of only invalid characters, whitespace and periods gives the empty text.
C8_SanitizeContract ==
    cleaned # Unset =>
        LET s == IF name = None THEN <<>> ELSE name
            r == cleaned
            ps == WordIndices(s)
            pr == WordIndices(r)
        IN  /\ \A i \in 1..Len(r) : r[i] \notin _INVALID_FOLDER_CHARS
            /\ \A i \in 1..Len(r) :
                   r[i] \in Whitespace =>
                       /\ r[i] = " "
                       /\ 1 < i /\ i < Len(r)
                       /\ r[i + 1] \notin Whitespace
            /\ r # <<>> => Last(r) \notin {" ", "."}
            /\ Len(r) <= _MAX_FOLDER_NAME_LEN
            /\ IsPrefix(WordChars(r), WordChars(s))
            /\ \A k \in 1..(Len(pr) - 1) :
                   pr[k + 1] = pr[k] +
                       (IF \E j \in (ps[k] + 1)..(ps[k + 1] - 1) : s[j] \in Whitespace
                        THEN 2 ELSE 1)
            /\ Len(s) <= _MAX_FOLDER_NAME_LEN =>
                   \A i \in (Len(pr) + 1)..Len(ps) : s[ps[i]] = "."
            /\ (\A i \in 1..Len(s) :
                    s[i] \in _INVALID_FOLDER_CHARS \cup Whitespace \cup {"."})
                   => r = <<>>

\* C8's case: an input longer than the limit whose 80-character prefix ends
\* in a space and a period, both trimmed after the cut
C8_Witness ==
    /\ name # None
    /\ Len(name) > _MAX_FOLDER_NAME_LEN
    /\ cleaned # Unset
    /\ Len(cleaned) = _MAX_FOLDER_NAME_LEN - 2
    /\ name[_MAX_FOLDER_NAME_LEN - 1] \in Whitespace
    /\ name[_MAX_FOLDER_NAME_LEN] = "."

Returned(r) == r # NotCalled /\ r # RepoRaised

\* C9: when ensure_client_repo returns, repo_root is a direct child of the
\* base directory named sanitize_folder_name(company name), or unknown_company
\* when that is empty; repo_root, _dossier, latest and runs exist as
\* directories; lead_input_path is _dossier/lead_input.json; and a call that
\* repeats the arguments of a call that returned returns the same paths.
C9_EnsureClientRepo ==
    /\ Returned(repo) =>
           LET base == repo_args.base_dir
               san == sanitize_folder_name(repo_args.company_name)
               root == repo.repo_root
           IN  /\ Len(root) = Len(base) + 1
               /\ Front(root) = base
               /\ Last(root) = (IF san = <<>> THEN unknown_company ELSE san)
               /\ \A i \in 1..Len(Last(root)) : Last(root)[i] \notin {"/", "\\"}
               /\ Last(root) \notin {<<>>, <<".">>, <<".", ".">>}
               /\ {root, root \o <<Dossier>>, root \o <<Latest>>,
                    root \o <<Runs>>} \subseteq dirs
               /\ repo.dossier_dir = root \o <<Dossier>>
               /\ repo.latest_dir = root \o <<Latest>>
               /\ repo.runs_dir = root \o <<Runs>>
               /\ repo.lead_input_path = root \o <<Dossier, LeadInputJson>>
    /\ Returned(repo_prev) => repo = repo_prev

\* C9's case: the call is repeated with a name that sanitizing changes
C9_Witness ==
    /\ Returned(repo_prev)
    /\ Returned(repo)
    /\ repo_args.company_name = <<"A", "/", "B">>
    /\ repo.repo_root = <<<<"b">>, <<"A", "B">>>>

\* the candidate paths in the order of the claim: the directory of the
\* markdown file, then each ancestor going upward, and in each directory
\* lead_input.json before _dossier/lead_input.json
CandOrder(md) ==
    LET depth == Len(md) - 1
    IN  [k \in 1..(2 * (depth + 1)) |->
            LET dir == SubSeq(md, 1, depth - ((k - 1) \div 2))
            IN  IF k % 2 = 1 THEN dir \o <<LeadInputJson>>
                ELSE dir \o <<Dossier, LeadInputJson>>]

Qualifies(lf, path, key) ==
    LET payload == PayloadAt(lf, path)
    IN  /\ payload.kind = "object"
        /\ IsStr(payload[key])
        /\ \E i \in 1..Len(payload[key]) : payload[key][i] \notin Whitespace

\* C10: when it returns, _resolve_company_name returns the name of the first
\* candidate, in the order of CandOrder, that is a JSON object with a string that is not blank
\* under company_name, client or company, the keys taken in that order; it
\* returns no name only when no candidate qualifies, and the replacement of
\* {{COMPANY}} is then "Unknown Company".
C10_FirstCandidateWins ==
    resolved_name \notin {Unset, Raised} =>
        LET c == CandOrder(md_file)
            Q == {q \in (1..Len(c)) \X (1..3) :
                     Qualifies(lead_files, c[q[1]], LeadKeys[q[2]])}
        IN  IF Q = {}
            THEN /\ resolved_name = None
                 /\ replacements.company = UnknownCompany
            ELSE LET q == CHOOSE x \in Q : \A y \in Q :
                              \/ x[1] < y[1]
                              \/ x[1] = y[1] /\ x[2] <= y[2]
                     value == PayloadAt(lead_files, c[q[1]])[LeadKeys[q[2]]]
                 IN  /\ resolved_name =
                            SelectSeq(value, LAMBDA ch : ch \notin Whitespace)
                     /\ replacements.company = resolved_name

\* C10's case: the file beside the markdown file cannot be parsed, the one in
\* its _dossier names nobody, and the name comes from the client key of the
\* parent directory's file, whose company_name is blank
C10_Witness ==
    /\ md_file = <<<<"d">>, <<"p">>>>
    /\ PayloadAt(lead_files, LeadPaths[1]).kind = "malformed"
    /\ PayloadAt(lead_files, LeadPaths[2]).kind = "object"
    /\ PayloadAt(lead_files, LeadPaths[3]).company_name = <<" ">>
    /\ resolved_name = <<"3", "c">>
    /\ replacements.company = <<"3", "c">>

\* C11: whatever the candidate paths hold, _resolve_company_name returns: it
\* does not raise, and when no candidate qualifies it returns no name and
\* the replacement of {{COMPANY}} is "Unknown Company".  The code does not
\* keep to it: path.exists() raises for a candidate in a directory that may
\* not be searched.
C11_LookupNeverRaises ==
    resolved_name # Unset =>
        /\ resolved_name # Raised
        /\ (\A i \in 1..Len(CandOrder(md_file)), k \in 1..3 :
                ~Qualifies(lead_files, CandOrder(md_file)[i], LeadKeys[k]))
               => /\ resolved_name = None
                  /\ replacements.company = UnknownCompany

\* C2: while _save_docx_atomic runs, and after an interruption at any point
\* before the rename, the destination holds what it held before the call (a
\* complete document or nothing); after the rename it holds the complete new
\* document; it never holds a partly written file.
C2_DestinationNeverPartial ==
    save_pc # "idle" =>
        /\ disk[save_path] = NoFile \/ Complete(disk[save_path])
        /\ save_pc # "done" => disk[save_path] = prior
        /\ save_pc = "done" => disk[save_path] = FileOf("new", MaxParts)

\* C2's case: the save is interrupted while the temporary file is partly
\* written and the destination still holds the older document
C2_Witness ==
    /\ save_pc = "interrupted"
    /\ disk[save_path \o ".tmp"].doc = "new"
    /\ disk[save_path \o ".tmp"].written \in 1..(MaxParts - 1)
    /\ disk[save_path] = FileOf("old", MaxParts)

\* the text a child contributes to the paragraph
ChildText(child) ==
    IF child.type \in {"text", "code_inline"} THEN child.content
    ELSE IF child.type = "softbreak" THEN <<" ">>
    ELSE IF child.type = "image" THEN
        IF child.content = <<>> THEN ImageOmitted
        ELSE ImageOmitted \o <<" ", "(">> \o child.content \o <<")">>
    ELSE <<>>

\* the text the children from the k-th on contribute, up to the next hard
\* break or the end
RECURSIVE ChildrenTextFrom(_, _)
ChildrenTextFrom(cs, k) ==
    IF k > Len(cs) \/ cs[k].type = "hardbreak" THEN <<>>
    ELSE ChildText(cs[k]) \o ChildrenTextFrom(cs, k + 1)

\* the text of the runs from the k-th on, up to the next break marker or
\* the end
RECURSIVE RunsTextFrom(_, _)
RunsTextFrom(rs, k) ==
    IF k > Len(rs) \/ rs[k].break THEN <<>>
    ELSE rs[k].text \o RunsTextFrom(rs, k + 1)

\* C6: the runs _inline_runs returns hold no text run with empty text and no
\* two adjacent text runs with the same (bold, italic, code); every hard
\* break of the children is one break marker of the runs, and the text
\* between two breaks is the text the children between them contribute, so
\* nothing is merged across a break.
C6_RunsMergedNotAcrossBreaks ==
    inline_pc = "done" =>
        LET cs == inline_token.children
            cb == SelectSeq(Indices(Len(cs)), LAMBDA i : cs[i].type = "hardbreak")
            rb == SelectSeq(Indices(Len(runs)), LAMBDA i : runs[i].break)
        IN  /\ \A i \in 1..Len(runs) : ~runs[i].break => runs[i].text # <<>>
            /\ \A i \in 1..(Len(runs) - 1) :
                   ~runs[i].break /\ ~runs[i + 1].break =>
                       <<runs[i].bold, runs[i].italic, runs[i].code>> #
                       <<runs[i + 1].bold, runs[i + 1].italic, runs[i + 1].code>>
            /\ \A i \in 1..Len(runs) : runs[i].break => runs[i] = BreakRun
            /\ Len(rb) = Len(cb)
            /\ RunsTextFrom(runs, 1) = ChildrenTextFrom(cs, 1)
            /\ \A j \in 1..Len(cb) :
                   RunsTextFrom(runs, rb[j] + 1) = ChildrenTextFrom(cs, cb[j] + 1)

\* C6's case: two texts of one style are merged before a hard break, and the
\* text after the break, of the same style, starts a run of its own
C6_Witness ==
    /\ inline_pc = "done"
    /\ inline_token.children =
           <<Child("text", <<"x">>), Child("softbreak", <<>>),
             Child("hardbreak", <<>>), Child("text", <<"x">>)>>
    /\ runs = <<TextRun(<<"x", " ">>, FALSE, FALSE, FALSE), BreakRun,
                TextRun(<<"x">>, FALSE, FALSE, FALSE)>>

\* The blocks the calls added to the document, in call order: what the calls
\* returned or created, but for the anchor (reused, not added) and for a
\* paragraph a call returned again right after the call that created it.
NewBlocks ==
    LET keep == SelectSeq(Indices(Len(emitted)),
                          LAMBDA i : /\ emitted[i] # anchor0
                                     /\ i > 1 => emitted[i] # emitted[i - 1])
    IN  [k \in 1..Len(keep) |-> emitted[keep[k]]]

\* C1: after any sequence of add_paragraph and add_table calls on a writer
\* started without an anchor, with an anchor in mid-document, or with an
\* anchor that is also the reusable paragraph, the body is the template
\* blocks up to the anchor (all of them when there is no anchor), then the
\* blocks the calls added in call order, then the template blocks after the
\* anchor, each group in its order; the cursor is the block of the last call
\* and a reusable paragraph is the cursor.
C1_BlocksInCallOrderAfterCursor ==
    doc_pc = "writer" =>
        LET split == IF anchor0 = 0 THEN Len(template0) ELSE anchor0
        IN  /\ Ids(document.body) =
                   SubSeq(template0, 1, split) \o NewBlocks
                       \o SubSeq(template0, split + 1, Len(template0))
            /\ document.orphans = <<>>
            /\ emitted # <<>> => writer.insert_after = Last(emitted)
            /\ writer.reuse_first \in {0, writer.insert_after}

\* a table, then a paragraph and another block were emitted after an anchor
\* that has template blocks on both sides
C1_Witness ==
    /\ doc_pc = "writer"
    /\ anchor0 > 1
    /\ anchor0 < Len(template0)
    /\ Len(NewBlocks) >= 3
    /\ \E i \in 1..Len(document.body) : document.body[i].kind = "tbl"
    /\ document.body[Len(document.body)].id = Len(template0)

\* the runs of a paragraph that show: the breaks and the texts not empty
VisibleRuns(rs) == SelectSeq(rs, LAMBDA r : r.break \/ r.text # <<>>)

\* C5: the table _render_table emits for a grid that is not empty has as
\* many rows as the grid and, in every row, as many cells as the widest row
\* of the grid; cell (r, c) holds one paragraph, with the runs of the grid's
\* row r at c when the row is that long and with nothing to show otherwise.
C5_TableRectangular ==
    (doc_pc = "table_done" /\ table_rows # <<>>) =>
        LET at == {i \in 1..Len(document.body) : document.body[i].kind = "tbl"}
            widths == {Len(table_rows[r]) : r \in 1..Len(table_rows)}
        IN  /\ Cardinality(at) = 1
            /\ \A i \in at :
                  LET cells == document.body[i].cells
                  IN  /\ Len(cells) = Len(table_rows)
                      /\ \A r \in 1..Len(cells) :
                            /\ \A n \in widths : n <= Len(cells[r])
                            /\ Len(cells[r]) \in widths
                            /\ \A c \in 1..Len(cells[r]) :
                                  /\ Len(cells[r][c]) = 1
                                  /\ VisibleRuns(cells[r][c][1].runs) =
                                         IF c <= Len(table_rows[r])
                                         THEN table_rows[r][c]
                                         ELSE <<>>

\* a grid whose first row is shorter than its second was rendered
C5_Witness ==
    /\ doc_pc = "table_done"
    /\ Len(table_rows) = 2
    /\ Len(table_rows[1]) = 1
    /\ Len(table_rows[2]) = 2
    /\ Len(table_rows[1][1]) = 3
    /\ \E i \in 1..Len(document.body) :
          /\ document.body[i].kind = "tbl"
          /\ Len(document.body[i].cells[1]) = 2

\* the paragraphs of the blocks, those of the cells of a table, tables
\* nested in them included, in the place of the table
RECURSIVE ParagraphsOf(_)
RECURSIVE ParagraphsOfCells(_)
RECURSIVE ParagraphsOfRows(_)
ParagraphsOfCells(cells) ==
    IF cells = <<>> THEN <<>>
    ELSE ParagraphsOf(Head(cells)) \o ParagraphsOfCells(Tail(cells))
ParagraphsOfRows(rows) ==
    IF rows = <<>> THEN <<>>
    ELSE ParagraphsOfCells(Head(rows)) \o ParagraphsOfRows(Tail(rows))
ParagraphsOf(blocks) ==
    IF blocks = <<>> THEN <<>>
    ELSE (IF Head(blocks).kind = "p" THEN <<Head(blocks)>>
          ELSE ParagraphsOfRows(Head(blocks).cells))
             \o ParagraphsOf(Tail(blocks))

\* the text with the company name for every COMPANY and the date for every
\* DATE
Substituted(text, company, today) ==
    Concat([i \in 1..Len(text) |->
               IF text[i] = COMPANY THEN company
               ELSE IF text[i] = DATE THEN today
               ELSE <<text[i]>>])

\* the blocks as they are but for what their paragraphs hold
Shape(blocks) ==
    [i \in 1..Len(blocks) |->
        IF blocks[i].kind = "p" THEN "p"
        ELSE [r \in 1..Len(blocks[i].cells) |-> Len(blocks[i].cells[r])]]

\* C7: a step of _apply_placeholder_replacements leaves in the document, in
\* their order, exactly the paragraphs of the body and of the table cells
\* that did not hold CONTACT; of these, a paragraph that held COMPANY or
\* DATE has as text its former text with the resolved company name (Unknown
\* Company when there is none) for every COMPANY and the date of the day for
\* every DATE, and a paragraph that held neither is as it was.  The code
\* does not keep to it: a paragraph of a table nested in a cell is passed
\* over.
C7_PlaceholdersReplaced ==
    [][(doc_pc = "init" /\ doc_pc' = "replaced") =>
        LET found == _resolve_company_name(md_file, lead_files)
            company == IF found = None THEN UnknownCompany ELSE found
            before == SelectSeq(ParagraphsOf(document.body),
                                LAMBDA p : ~Contains(Text(p), CONTACT))
            after == ParagraphsOf(document'.body)
        IN  /\ Len(after) = Len(before)
            /\ \A k \in 1..Len(before) :
                  IF Contains(Text(before[k]), COMPANY)
                        \/ Contains(Text(before[k]), DATE)
                  THEN Text(after[k]) =
                           Substituted(Text(before[k]), company, Today)
                  ELSE after[k] = before[k]
            /\ Shape(SelectSeq(document'.body, LAMBDA b : b.kind = "tbl")) =
                   Shape(SelectSeq(document.body, LAMBDA b : b.kind = "tbl"))
    ]_vars

\* a step of _render_tokens on a heading_open token
HeadingStep ==
    /\ doc_pc = "replaced"
    /\ token_i <= Len(tokens)
    /\ tokens[token_i].type = "heading_open"
    /\ token_i' # token_i

\* the style the claim gives a heading of the level of the token
ClaimedHeadingStyle(token, styles) ==
    LET level == DigitValue(token.tag[2])
    IN  IF level <= 1 THEN (IF "Title" \in styles THEN "Title" ELSE "Heading 1")
        ELSE IF level = 2 THEN "Heading 1"
        ELSE "Heading 2"

\* the step emitted one paragraph: a new one, or the reusable one
OneParagraphEmitted ==
    /\ writer'.reuse_first = 0
    /\ IF writer.reuse_first # 0
       THEN /\ writer'.insert_after = writer.reuse_first
            /\ document'.next_id = document.next_id
       ELSE /\ writer'.insert_after = document.next_id
            /\ document'.next_id = document.next_id + 1

\* C4 as stated: the one paragraph emitted for a heading_open token of
\* level L has style Title when L <= 1 and the document defines Title,
\* Heading 1 when L <= 1 and it does not, Heading 1 when L = 2 and Heading 2
\* when L >= 3.  It fails in a document that does not define the style.
C4_HeadingStyleAsStated ==
    [][HeadingStep =>
        /\ OneParagraphEmitted
        /\ Block(document', writer'.insert_after).style =
               ClaimedHeadingStyle(tokens[token_i], document.styles)
    ]_vars

\* C4, amended: the one paragraph emitted for a heading_open token of level
\* L has the style named above when the document defines that style; when
\* it does not, the paragraph keeps the style it had: the default style for
\* a new paragraph, its own for the reused one.
C4_HeadingStyle ==
    [][HeadingStep =>
        LET style == ClaimedHeadingStyle(tokens[token_i], document.styles)
            emitted_p == Block(document', writer'.insert_after)
        IN  /\ OneParagraphEmitted
            /\ emitted_p.kind = "p"
            /\ emitted_p.style =
                   IF style \in document.styles THEN style
                   ELSE IF writer.reuse_first # 0
                       THEN Block(document, writer.reuse_first).style
                   ELSE DefaultStyle
    ]_vars

\* a heading of level 3 was rendered first, into a document that does not
\* define Heading 2, and its paragraph has the default style
C4_Witness ==
    /\ doc_pc = "replaced"
    /\ token_i = 4
    /\ tokens[1].type = "heading_open"
    /\ tokens[1].tag = <<"h", "3">>
    /\ "Heading 2" \notin document.styles
    /\ Block(document, writer.insert_after).style = DefaultStyle

\* a block as it shows: without its identity and without the runs that hold
\* no text and no break
RECURSIVE Shown(_)
Shown(blocks) ==
    [i \in 1..Len(blocks) |->
        [kind |-> blocks[i].kind, style |-> blocks[i].style,
         indent |-> blocks[i].indent, profile |-> blocks[i].profile,
         runs |-> VisibleRuns(blocks[i].runs),
         cells |-> [r \in 1..Len(blocks[i].cells) |->
                       [c \in 1..Len(blocks[i].cells[r]) |->
                           Shown(blocks[i].cells[r][c])]]]]

\* the body a render of the tokens without a template produces
WithoutTemplate ==
    LET r == _init_document(NoTemplate)
        d == _apply_placeholder_replacements(r.doc, replacements)
    IN  RenderAll(Loop(tokens, 1, <<>>, 0, d, r.writer)).doc.body

\* the company paragraph, the date paragraph and the page break of the
\* default template, their placeholders replaced
Banner ==
    SubSeq(_apply_placeholder_replacements(
               NewDoc(DefaultTemplateBody, DefaultStyles), replacements).body,
           1, 3)

\* C3: a render with a template path where nothing existed, so that the
\* default template was written, ends with a body that shows the banner of
\* the template and then exactly the blocks a render of the same tokens
\* without a template produces.  The code does not keep to it: the emptied
\* placeholder paragraph stays in the body when the first block is a table
\* and when there are no blocks.
C3_DefaultTemplateEquivalent ==
    (doc_pc = "rendered" /\ template.kind = "file" /\ template.fresh) =>
        Shown(document.body) = Shown(Banner) \o Shown(WithoutTemplate)

\* what render_primer_docx has not touched: no document was opened, no
\* placeholder processed, no token rendered, and the destination, its
\* temporary path and the template path hold what they held
NothingDone ==
    /\ document = NewDoc(<<>>, DefaultStyles)
    /\ writer = Writer(0, 0)
    /\ emitted = <<>>
    /\ resolved_name = Unset
    /\ replacements = NoReplacements
    /\ token_i = 1
    /\ list_stack = <<>>
    /\ save_pc = "idle"
    /\ disk[save_path] = prior
    /\ disk[TmpPath(save_path)] = NoFile
    /\ template = DirTemplate

\* the render of a directory template never gets past _init_document
StopsAtTemplate == doc_pc \in {"start", "read", "raised"}

\* C12 as stated: when the template path is an existing directory,
\* render_primer_docx fails with ValueError, and before any rendering work:
\* no document is opened, no placeholder is processed, no token is rendered,
\* and the destination path and the template path hold what they held.
C12_DirectoryTemplateAsStated ==
    template.kind = "dir" =>
        /\ StopsAtTemplate
        /\ doc_pc = "raised" => error = "ValueError"
        /\ NothingDone

\* C12, amended: the same when the markdown file was read; when it cannot
\* be read the error is that of the read (line 25 runs first), and nothing
\* was touched either.
C12_DirectoryTemplate ==
    template.kind = "dir" =>
        /\ StopsAtTemplate
        /\ doc_pc = "raised" =>
               error = (IF md_readable THEN "ValueError" ELSE "OSError")
        /\ NothingDone

C12_Witness ==
    /\ template.kind = "dir"
    /\ md_readable
    /\ tokens # <<>>
    /\ doc_pc = "raised"
    /\ error = "ValueError"

\* the step that changes what the destination path holds
DestinationWritten == disk'[save_path] # disk[save_path]

\* C13: in every render the destination is written exactly once, by the
\* rename that ends the save, and only after the last token was rendered;
\* when a step raises, the destination holds what it held before the call,
\* and it never holds anything but that or the complete new document.
C13_SavedOnceAfterLastToken ==
    /\ [](doc_pc = "raised" => disk[save_path] = prior)
    /\ [](disk[save_path] \in {prior, FileOf("new", MaxParts)})
    /\ [](save_pc = "done" <=> disk[save_path] = FileOf("new", MaxParts))
    /\ [][DestinationWritten =>
              /\ doc_pc = "rendered"
              /\ token_i > Len(tokens)
              /\ save_pc = "saved"
              /\ save_pc' = "done"
              /\ disk[save_path] = prior]_vars
    /\ [][save_pc = "done" => save_pc' = "done" /\ disk' = disk]_vars

C13_Witness ==
    /\ save_pc = "done"
    /\ doc_pc = "rendered"
    /\ Len(tokens) > 1
    /\ token_i > Len(tokens)
    /\ prior = FileOf("old", MaxParts)
    /\ disk[save_path] = FileOf("new", MaxParts)

\* C14: when the placeholder paragraph is empty after {{CONTENT}} is
\* stripped (the writer starts with it as reuse_first), the first block the
\* writer hands out is that paragraph, whatever the kind of the first block,
\* so no empty paragraph stays between the template blocks before it and the
\* first rendered block; when it still has text it stays in the body with
\* that text and the first block is the block right after it.
C14_EmptyPlaceholderReused ==
    (doc_pc = "writer" /\ emitted # <<>> /\ anchor0 # 0) =>
        /\ Has(document.body, anchor0)
        /\ reuse0 # 0 => emitted[1] = reuse0
        /\ reuse0 = 0 =>
               /\ ~IsBlank(Text(Block(document, anchor0)))
               /\ Pos(document.body, anchor0) < Len(document.body)
               /\ document.body[Pos(document.body, anchor0) + 1].id =
                      emitted[1]

\* C15: in every render with a template, the paragraph the writer holds as
\* anchor or reusable paragraph is in the document body once the
\* placeholders were replaced and while the blocks are emitted, and every
\* block outside the body is a template block that was removed; this
\* includes a template paragraph that held both {{CONTENT}} and {{CONTACT}}.
C15_AnchorStaysAttached ==
    (doc_pc \in {"replaced", "rendered"} /\ anchor0 # 0) =>
        /\ Has(document.body, anchor0)
        /\ \A i \in 1..Len(document.orphans) :
               \E j \in 1..Len(template0) :
                   document.orphans[i].id = template0[j]

\* the loop is at a paragraph_open token
ParagraphStep ==
    /\ doc_pc = "replaced"
    /\ token_i <= Len(tokens)
    /\ tokens[token_i].type = "paragraph_open"

InList == in_list_item > 0 /\ list_stack # <<>>

\* the style C16 names for a paragraph emitted now
ClaimedParagraphStyle ==
    IF InList /\ Last(list_stack) = "bullet" THEN "List Bullet"
    ELSE IF InList /\ Last(list_stack) = "ordered" THEN "List Number"
    ELSE "Normal"

\* the style the paragraph the writer hands out next has before it is
\* assigned one
StyleBefore ==
    IF writer.reuse_first # 0 THEN Block(document, writer.reuse_first).style
    ELSE DefaultStyle

\* the styles of the paragraphs of the body that were not in the template
RenderedStyles ==
    LET new == SelectSeq(document.body, LAMBDA b :
                   b.kind = "p" /\ (b.id = reuse0 \/
                       \A j \in 1..Len(template0) : b.id # template0[j]))
    IN  [k \in 1..Len(new) |-> <<new[k].style, new[k].indent>>]

ListStyle(kind) == IF kind = "bullet" THEN "List Bullet" ELSE "List Number"

\* C16 as stated: the paragraph emitted for a paragraph_open token has
\* style List Bullet, List Number or Normal by the item depth and the top of
\* the list stack, and the hanging indent exactly in the two list cases.
C16_ParagraphStyleAsStated ==
    [][ParagraphStep =>
          LET p == Block(document', writer'.insert_after)
          IN  /\ p.style = ClaimedParagraphStyle
              /\ p.indent = InList]_vars

\* C16, amended: the paragraph has that style when the document defines it
\* and else keeps the style it had; the hanging indent is applied exactly in
\* the two list cases either way; and in a document that defines the list
\* styles, the paragraphs of a list, of a list nested in its item, of the
\* item after the nested list closed, and after the list, have the styles of
\* the outer, the inner, the outer list again, and Normal.
C16_ParagraphStyle ==
    /\ [][ParagraphStep =>
            LET p == Block(document', writer'.insert_after)
            IN  /\ p.style = (IF ClaimedParagraphStyle \in document.styles
                              THEN ClaimedParagraphStyle ELSE StyleBefore)
                /\ p.indent = InList]_vars
    /\ [](\A outer, inner \in ListKinds :
             (/\ doc_pc = "rendered"
              /\ tokens = NestedList(outer, inner)
              /\ template.kind = "none") =>
                 RenderedStyles =
                     << <<ListStyle(outer), TRUE>>, <<ListStyle(inner), TRUE>>,
                        <<ListStyle(outer), TRUE>>, <<"Normal", FALSE>> >>)

\* a bullet list with an ordered list in its item was rendered into a
\* document without list styles: every paragraph kept the default style,
\* those of the items with the hanging indent
C16_Witness ==
    /\ doc_pc = "rendered"
    /\ tokens = NestedList("bullet", "ordered")
    /\ "List Bullet" \notin document.styles
    /\ RenderedStyles =
           << <<DefaultStyle, TRUE>>, <<DefaultStyle, TRUE>>,
              <<DefaultStyle, TRUE>>, <<DefaultStyle, FALSE>> >>

ListCloses == {"bullet_list_close", "ordered_list_close"}
ListTypes ==
    {"bullet_list_open", "ordered_list_open", "list_item_open",
     "list_item_close"} \cup ListCloses

\* The lists and items open after the tokens from the k-th on, given those
\* open before it, innermost last; Unnested when a close does not match the
\* innermost open list or item.
Unnested == <<"unnested">>

RECURSIVE Brackets(_, _, _)
Brackets(toks, k, open) ==
    IF k > Len(toks) THEN open
    ELSE LET type == toks[k].type
             closes == IF type = "bullet_list_close" THEN "bullet"
                       ELSE IF type = "ordered_list_close" THEN "ordered"
                       ELSE "item"
         IN  IF type = "bullet_list_open"
                 THEN Brackets(toks, k + 1, Append(open, "bullet"))
             ELSE IF type = "ordered_list_open"
                 THEN Brackets(toks, k + 1, Append(open, "ordered"))
             ELSE IF type = "list_item_open"
                 THEN Brackets(toks, k + 1, Append(open, "item"))
             ELSE IF type \in ListCloses \cup {"list_item_close"}
                 THEN IF open # <<>> /\ Last(open) = closes
                      THEN Brackets(toks, k + 1, Front(open))
                      ELSE Unnested
             ELSE Brackets(toks, k + 1, open)

\* the list and item opens and closes of the stream are properly nested
ProperlyNested(toks) == Brackets(toks, 1, <<>>) = <<>>

\* the kinds of the lists open after the first n tokens, outermost first
OpenLists(toks, n) ==
    SelectSeq(Brackets(SubSeq(toks, 1, n), 1, <<>>), LAMBDA b : b # "item")

\* the items open after the first n tokens
OpenItems(toks, n) ==
    Len(SelectSeq(Brackets(SubSeq(toks, 1, n), 1, <<>>), LAMBDA b : b = "item"))

\* a list or item token lies between a heading, paragraph or table opening
\* token and its closing token, or the end of the stream when it has none
ListTokenInsideBlock(toks) ==
    \E i \in 1..Len(toks) :
        \E b \in {"heading", "paragraph", "table"} :
            /\ toks[i].type = b \o "_open"
            /\ \E j \in (i + 1)..(_skip_to(toks, i, b \o "_close") - 1) :
                   toks[j].type \in ListTypes

\* what C17 says of every stream: the depth is never negative, and a list
\* close met with an empty stack leaves it empty and goes on
DepthAndStackGuarded ==
    /\ [](in_list_item >= 0)
    /\ [][(/\ doc_pc = "replaced"
           /\ token_i <= Len(tokens)
           /\ tokens[token_i].type \in ListCloses
           /\ list_stack = <<>>) =>
              /\ list_stack' = <<>>
              /\ token_i' = token_i + 1
              /\ doc_pc' = "replaced"]_vars

\* the stack and the depth are those of the lists and items open after the
\* tokens before the index, and empty and zero at the end
StackTracksOpenLists ==
    LET done == Min(token_i - 1, Len(tokens))
    IN  /\ list_stack = OpenLists(tokens, done)
        /\ in_list_item = OpenItems(tokens, done)
        /\ doc_pc = "rendered" => list_stack = <<>> /\ in_list_item = 0

BlockTypes == {"heading_open", "paragraph_open", "hr", "fence", "table_open"}

\* C19: a list open, list close, item open or item close token, and a token
\* of a type _render_tokens does not know, leaves the document and the
\* writer as they are and moves the index on by exactly one; a token of an
\* unknown type leaves the list stack and the depth as they are too.
C19_NoOutputTokens ==
    [][(/\ doc_pc = "replaced"
        /\ token_i <= Len(tokens)
        /\ tokens[token_i].type \notin BlockTypes) =>
           /\ document' = document
           /\ writer' = writer
           /\ token_i' = token_i + 1
           /\ tokens[token_i].type \notin ListTypes =>
                  list_stack' = list_stack /\ in_list_item' = in_list_item]_vars

\* a block quote marker was passed over inside an open list item
C19_Witness ==
    /\ doc_pc = "replaced"
    /\ token_i > 1
    /\ token_i - 1 <= Len(tokens)
    /\ tokens[token_i - 1].type = "blockquote_open"
    /\ list_stack # <<>>
    /\ in_list_item > 0

\* C18: on every token sequence, with or without the closing tokens of its
\* headings, paragraphs and tables, _render_tokens returns: every iteration
\* of the loop dispatches a token inside the sequence and moves the index
\* forward, so that no token is dispatched twice and the distance of the
\* index to the end bounds the iterations left; the index never passes the
\* end by more than two; and the loop is left exactly when the index is
\* past the last token.
C18_RenderTokensTerminates ==
    /\ [][doc_pc = "replaced" /\ doc_pc' = "replaced" =>
              /\ token_i \in 1..Len(tokens)
              /\ token_i' > token_i
              /\ tokens' = tokens]_vars
    /\ [](token_i \in 1..(Len(tokens) + 2))
    /\ [](doc_pc = "replaced" /\ token_i > Len(tokens) => ENABLED RenderDone)
    /\ [][doc_pc = "replaced" /\ doc_pc' = "rendered" =>
              /\ token_i > Len(tokens)
              /\ token_i' = token_i]_vars
    /\ [](doc_pc = "rendered" => token_i > Len(tokens))

\* the loop has returned from a stream that ends in a table without
\* table_close
C18_Witness ==
    /\ doc_pc = "rendered"
    /\ Len(tokens) = MaxTokens
    /\ tokens[1].type = "paragraph_open"
    /\ tokens[2].type = "paragraph_close"
    /\ tokens[3].type = "table_open"
    /\ \A k \in 1..Len(tokens) : tokens[k].type # "table_close"
    /\ token_i = Len(tokens) + 2

\* The lines of the content of a code block: each newline ends a line, and
\* what follows the last newline is a line when it is not empty.
RECURSIVE ContentLines(_, _)
ContentLines(text, line) ==
    IF text = <<>> THEN (IF line = <<>> THEN <<>> ELSE <<line>>)
    ELSE IF Head(text) = "\n"
        THEN <<line>> \o ContentLines(Tail(text), <<>>)
    ELSE ContentLines(Tail(text), Append(line, Head(text)))

\* style and text of the paragraphs of the body that were not in the
\* template, in order
RenderedParagraphs ==
    LET new == SelectSeq(document.body, LAMBDA b :
                   b.kind = "p" /\ (b.id = reuse0 \/
                       \A j \in 1..Len(template0) : b.id # template0[j]))
    IN  [k \in 1..Len(new) |-> <<new[k].style, Text(new[k])>>]

\* C20: a fenced code block gives one Normal paragraph for each line of its
\* content, in order, the blank lines and those at the end of the content
\* included; a block without content gives exactly one empty paragraph.
C20_OneParagraphPerLine ==
    (doc_pc = "rendered" /\ Len(tokens) = 1 /\ tokens[1].type = "fence") =>
        LET lines == ContentLines(tokens[1].content, <<>>)
        IN  RenderedParagraphs =
                IF tokens[1].content = <<>> THEN << <<"Normal", <<>>>> >>
                ELSE [k \in 1..Len(lines) |-> <<"Normal", lines[k]>>]

\* the attributes of a style the profile deals with, and their baselines
AttrNames == {"size", "bold", "space_before", "space_after", "keep_with_next"}
BaselineOf(style_name, attr) ==
    CASE attr = "size" -> PtAttr(profiles[style_name].font_size_pt)
      [] attr = "bold" -> profiles[style_name].bold
      [] attr = "space_before" -> PtAttr(profiles[style_name].spacing_before_pt)
      [] attr = "space_after" -> PtAttr(profiles[style_name].spacing_after_pt)
      [] attr = "keep_with_next" -> profiles[style_name].keep_with_next
FilledOnlyWhereUnset(before, after) ==
    /\ DOMAIN after = DOMAIN before
    /\ \A style_name \in DOMAIN before :
        IF style_name \in DOMAIN profiles
        THEN \A attr \in AttrNames :
                after[style_name][attr] =
                    IF before[style_name][attr] # NoAttr
                    THEN before[style_name][attr]
                    ELSE BaselineOf(style_name, attr)
        ELSE after[style_name] = before[style_name]
(* C21: for every style of the profile table and every combination of set  *)
(* and unset attributes, _apply_style_profile keeps each attribute that    *)
(* was set, gives each unset attribute that has a baseline the baseline    *)
(* value and leaves an unset attribute without a baseline unset; a style   *)
(* the document lacks is skipped and stays absent, a style outside the     *)
(* table is untouched, and a second application changes nothing.           *)
C21_ProfileFillsOnlyUnset ==
    [][ApplyStyleProfile =>
        /\ FilledOnlyWhereUnset(style_attrs, style_attrs')
        /\ profile_calls >= 1 => style_attrs' = style_attrs]_vars
C21_Witness ==
    /\ profile_calls = 2
    /\ "Heading 3" \in DOMAIN style_attrs
    /\ style_attrs["Heading 3"] =
        StyleAttrs(NoAttr, <<FALSE>>, <<Pt(10)>>, <<Pt(0)>>, <<FALSE>>)

\* The strong and em markers that are open at the k-th child of an inline
\* token, innermost last; Unnested when a close marker before it closes a
\* span that is not the innermost open one.
EmphasisKind(type) ==
    IF type \in {"strong_open", "strong_close"} THEN "strong" ELSE "em"
RECURSIVE OpenSpans(_, _)
OpenSpans(children, k) ==
    IF k <= 1 THEN <<>>
    ELSE LET before == OpenSpans(children, k - 1)
             type == children[k - 1].type
         IN  IF before = Unnested THEN Unnested
             ELSE IF type \in {"strong_open", "em_open"}
                 THEN Append(before, EmphasisKind(type))
             ELSE IF type \in {"strong_close", "em_close"}
                 THEN IF before # <<>> /\ Last(before) = EmphasisKind(type)
                      THEN Front(before)
                      ELSE Unnested
             ELSE before
EmphasisNested(children) == OpenSpans(children, Len(children) + 1) = <<>>
InsideSpan(children, k, kind) ==
    \E j \in 1..Len(OpenSpans(children, k)) :
        OpenSpans(children, k)[j] = kind

\* the runs of the text children from the k-th on, each bold when it lies
\* inside a strong span and italic when it lies inside an em span
RECURSIVE SpanRuns(_, _, _)
SpanRuns(children, k, rs) ==
    IF k > Len(children) THEN rs
    ELSE SpanRuns(children, k + 1,
            IF children[k].type = "text"
            THEN _append_run(rs, children[k].content,
                             InsideSpan(children, k, "strong"),
                             InsideSpan(children, k, "em"), FALSE)
            ELSE rs)

\* C23: when the strong and em markers of an inline token are properly
\* nested, a text child gives a bold run exactly when it lies between a
\* strong_open and its matching strong_close and an italic run exactly when it
\* lies between an em_open and its matching em_close, also after the close of
\* a span nested inside a span of the same kind.
C23_BoldInsideStrongSpans ==
    (inline_pc = "done" /\ EmphasisNested(inline_token.children)) =>
        runs = SpanRuns(inline_token.children, 1, <<>>)

\* The inline tokens of the emphasis cases: up to MaxSpan children, texts and
\* properly nested strong and em markers, as markdown-it emits them.
MaxSpan == 6
EmphasisChildren ==
    {Child(t, <<>>) : t \in {"strong_open", "strong_close", "em_open",
                              "em_close"}}
    \cup {Child("text", <<"x">>)}
EmphasisTokens ==
    {Inline(cs) : cs \in
        {c \in UNION {[1..n -> EmphasisChildren] : n \in 0..MaxSpan} :
            EmphasisNested(c)}}
EmphasisInit ==
    /\ inline_token \in EmphasisTokens
    /\ runs = <<>>
    /\ inline_pc = "start"

\* The placeholder paragraph of the template file is an empty carrier: it
\* holds nothing but white space once {{CONTENT}} is taken out of its text.
EmptyCarrier ==
    /\ template.kind = "file"
    /\ \E k \in 1..Len(template.body) :
          /\ template.body[k].kind = "p"
          /\ Contains(Text(template.body[k]), PLACEHOLDER)
          /\ \A j \in 1..(k - 1) :
                ~(/\ template.body[j].kind = "p"
                  /\ Contains(Text(template.body[j]), PLACEHOLDER))
          /\ IsBlank(ReplaceAll(Text(template.body[k]), PLACEHOLDER, <<>>))
          /\ writer.reuse_first = template.body[k].id

\* a call of add_paragraph hands out one block, a call of add_table two
ParagraphCall == Len(emitted') = Len(emitted) + 1
TableCall == Len(emitted') = Len(emitted) + 2

DefaultLayout(body) ==
    /\ Len(body) = 4
    /\ \A k \in 1..4 : body[k].kind = "p"
    /\ Contains(Text(body[1]), COMPANY)
    /\ ~Contains(Text(body[1]), PLACEHOLDER)
    /\ Contains(Text(body[2]), DATE)
    /\ ~Contains(Text(body[2]), PLACEHOLDER)
    /\ body[3].runs = <<PageBreakRun>>
    /\ Text(body[4]) = <<PLACEHOLDER>>

\* C22: what is at the template path changes only in the step of
\* _init_document and only when nothing was there, and then it is the default
\* template: a company title paragraph, a date paragraph, a page break and a
\* bare {{CONTENT}} paragraph, in order; when a file (or a directory) is at
\* the path no step of a render changes it, whatever is stripped, replaced
\* and inserted in the loaded document; and a second render with the same
\* path leaves it as the first render left it and loads its blocks again.
C22_TemplateWrittenOnlyWhenAbsent ==
    /\ [][template' # template =>
            /\ template.kind = "absent"
            /\ doc_pc = "read" /\ doc_pc' = "init"
            /\ template'.kind = "file"
            /\ DefaultLayout(template'.body)]_vars
    /\ [][template.kind \in {"file", "bad", "dir"} =>
            template' = template]_vars
    /\ [][renders = 2 => template' = template]_vars
    /\ [](/\ renders = 2
          /\ doc_pc \in {"init", "replaced", "rendered"}
          /\ template.kind # "none"
          => /\ template.kind = "file"
             /\ template0 = Ids(template.body))

\* C22's case: a second render over a template file that was there before
\* the first has saved its document, which holds inserted blocks and no
\* {{CONTENT}}, while the template still is the file with {{CONTENT}}.
C22_Witness ==
    /\ renders = 2
    /\ save_pc = "done"
    /\ template.kind = "file"
    /\ ~template.fresh
    /\ \E k \in 1..Len(template.body) :
          /\ template.body[k].kind = "p"
          /\ Contains(Text(template.body[k]), PLACEHOLDER)
    /\ Len(document.body) > Len(template.body)
    /\ \A k \in 1..Len(document.body) :
          document.body[k].kind = "p" =>
              ~Contains(Text(document.body[k]), PLACEHOLDER)

-----------------------------------------------------------------------------
(* The specifications.                                                     *)

InitSanitize ==
    SanInit /\ RepoIdle /\ CompanyIdle /\ SaveIdle /\ InlineIdle /\ DocIdle
        /\ ProfileIdle /\ renders = 1
SpecSanitize == InitSanitize /\ [][SanitizeFolderName]_vars

InitRepo ==
    SanIdle /\ RepoInit /\ CompanyIdle /\ SaveIdle /\ InlineIdle /\ DocIdle
        /\ ProfileIdle /\ renders = 1
SpecRepo == InitRepo /\ [][EnsureClientRepoCall]_vars

InitCompany ==
    SanIdle /\ RepoIdle /\ CompanyInit /\ SaveIdle /\ InlineIdle /\ DocIdle
        /\ ProfileIdle /\ renders = 1
SpecCompany == InitCompany /\ [][ResolveCompanyName]_vars

InitSave ==
    SanIdle /\ RepoIdle /\ CompanyIdle /\ SaveInit /\ InlineIdle /\ DocIdle
        /\ ProfileIdle /\ renders = 1
NextSave == SaveOpen \/ SaveWrite \/ SaveClose \/ SaveReplace \/ SaveInterrupt
SpecSave == InitSave /\ [][NextSave]_vars

InitInline ==
    SanIdle /\ RepoIdle /\ CompanyIdle /\ SaveIdle /\ InlineInit /\ DocIdle
        /\ ProfileIdle /\ renders = 1
SpecInline == InitInline /\ [][InlineRuns]_vars

InitWriter ==
    SanIdle /\ RepoIdle /\ CompanyIdle /\ SaveIdle /\ InlineIdle /\ WriterInit
        /\ ProfileIdle /\ renders = 1
NextWriter == AddParagraph \/ AddTable
SpecWriter == InitWriter /\ [][NextWriter]_vars

InitTable ==
    SanIdle /\ RepoIdle /\ CompanyIdle /\ SaveIdle /\ InlineIdle /\ TableInit
        /\ ProfileIdle /\ renders = 1
SpecTable == InitTable /\ [][RenderTable]_vars

InitPlaceholders ==
    SanIdle /\ RepoIdle /\ RenderCompanyInit /\ SaveIdle /\ InlineIdle
        /\ PlaceholdersInit
        /\ ProfileIdle /\ renders = 1
SpecPlaceholders == InitPlaceholders /\ [][ApplyPlaceholders]_vars

InitFirstBlock ==
    SanIdle /\ RepoIdle /\ CompanyIdle /\ SaveIdle /\ InlineIdle
        /\ FirstBlockInit
        /\ ProfileIdle /\ renders = 1
SpecFirstBlock == InitFirstBlock /\ [][NextWriter]_vars

InitLists ==
    SanIdle /\ RepoIdle /\ CompanyIdle /\ SaveIdle /\ InlineIdle
        /\ TokensInit(ListStreams, {NoTemplate, PlainTemplate})
        /\ ProfileIdle /\ renders = 1
NextTokens == RenderToken \/ RenderDone
SpecLists == InitLists /\ [][NextTokens]_vars

InitBlocks ==
    SanIdle /\ RepoIdle /\ CompanyIdle /\ SaveIdle /\ InlineIdle
        /\ TokensInit(BlockStreams, {NoTemplate})
        /\ ProfileIdle /\ renders = 1
SpecBlocks == InitBlocks /\ [][NextTokens]_vars

InitFence ==
    SanIdle /\ RepoIdle /\ CompanyIdle /\ SaveIdle /\ InlineIdle
        /\ TokensInit(FenceStreams, {NoTemplate, PlainTemplate})
        /\ ProfileIdle /\ renders = 1
SpecFence == InitFence /\ [][NextTokens]_vars

InitRender ==
    SanIdle /\ RepoIdle /\ RenderCompanyInit /\ RenderSaveInit /\ InlineIdle
        /\ RenderInit
        /\ ProfileIdle /\ renders = 1
NextRender ==
    \/ ReadMarkdown
    \/ InitDocument
    \/ ApplyPlaceholders
    \/ RenderToken
    \/ RenderDone
    \/ SaveDocument
    \/ SaveOpen
    \/ SaveWrite
    \/ SaveClose
    \/ SaveReplace
    \/ SaveRaises
SpecRender == InitRender /\ [][NextRender]_vars

InitProfile ==
    SanIdle /\ RepoIdle /\ CompanyIdle /\ SaveIdle /\ InlineIdle /\ DocIdle
        /\ ProfileInit /\ renders = 1
SpecProfile == InitProfile /\ [][ApplyStyleProfile]_vars

InitEmphasis ==
    SanIdle /\ RepoIdle /\ CompanyIdle /\ SaveIdle /\ EmphasisInit /\ DocIdle
        /\ ProfileIdle /\ renders = 1
SpecEmphasis == InitEmphasis /\ [][InlineRuns]_vars

InitTemplate ==
    SanIdle /\ RepoIdle /\ RenderCompanyInit /\ RenderSaveInit /\ InlineIdle
        /\ TemplateRenderInit
        /\ ProfileIdle /\ renders = 1
NextTemplate == NextRender \/ RenderAgain
SpecTemplate == InitTemplate /\ [][NextTemplate]_vars

====
